---- MODULE Spec2Model ----
(***************************************************************************)
(* State-machine model of the payment orchestrator                         *)
(* (src/src/core/payment_processor.ts) and of the error conversion in      *)
(* src/src/types/provider.ts.                                              *)
(*                                                                         *)
(* Risk scores are numbers in [0,1] in the source; the model keeps them in *)
(* tenths (0.8 is 8, 0.5 is 5).  The collaborators whose code is not part  *)
(* of the modelled files (providers, fraud detector, payment-method        *)
(* manager, validation) answer nondeterministically within their           *)
(* interface: a success envelope, a failure envelope, or a raised error.   *)
(***************************************************************************)
EXTENDS Integers, Sequences, FiniteSets, TLC

VARIABLES config, riskCapable, initialized, initPc, completed, registry, store, last,
          clientKeys, usedKeys, serialize, flight, captured

vars ==
    <<config, riskCapable, initialized, initPc, completed, registry, store, last,
      clientKeys, usedKeys, serialize, flight, captured>>

(***************************************************************************)
(* Bounds of the model                                                     *)
(***************************************************************************)
\* longest timeline a provider returns
MaxTimeline == 2

(***************************************************************************)
(* Types                                                                   *)
(***************************************************************************)
PaymentMethodType == {"card", "bank_account", "ach", "sepa", "digital_wallet", "crypto"}

TransactionStatus ==
    {"initialized", "pending", "authorized", "captured", "failed", "declined",
     "refunded", "partially_refunded", "disputed", "canceled", "expired"}

RiskLevel == {"low", "medium", "high"}

\* risk scores the collaborators report, in tenths
Scores == {0, 4, 5, 6, 8}

TxIds == {"tx_1"}

ProviderClasses ==
    {"StripeCardAdapter", "GenericCardProvider", "PlaidBankAdapter", "SEPAProvider"}

NoProvider == "none"

\* amount and originalAmount are in minor units
NoTx ==
    [id |-> "none", status |-> "none", paymentMethodType |-> "none", timeline |-> <<>>,
     amount |-> 0, originalAmount |-> 0]

NoRisk ==
    [score |-> 0, level |-> "none", factors |-> <<>>, recommendations |-> <<>>,
     triggeredRules |-> <<>>]

(***************************************************************************)
(* Error taxonomy                                                          *)
(***************************************************************************)
\* An error value: kind is what `instanceof` and `typeof` see ("PaymentError",
\* "Error", "string", "object", "null", "undefined"), name the class, message the
\* text ("" when empty), cause the identity (ref) of the error it wraps, ref the
\* identity of the object itself
DefaultMessage == "An unknown error occurred"

NoDetails == [present |-> FALSE, retryAfter |-> -1, originalError |-> "none"]

\* an option left out (undefined): "unset" for text and flags, -1 for numbers
NoOptions ==
    [code |-> "unset", statusCode |-> -1, retryable |-> "unset", details |-> NoDetails,
     cause |-> "none"]

\* new PaymentError(message, options): code = options.code || "payment_error",
\* statusCode = options.statusCode || 500, retryable = options.retryable || false
PaymentError(name, message, options) ==
    [kind |-> "PaymentError", name |-> name,
     code |-> IF options.code \in {"unset", ""} THEN "payment_error" ELSE options.code,
     statusCode |-> IF options.statusCode \in {-1, 0} THEN 500 ELSE options.statusCode,
     retryable |-> options.retryable = "true",
     message |-> message, details |-> options.details, cause |-> options.cause,
     ref |-> "constructed"]

ValidationError(message, cause) ==
    PaymentError("ValidationError", message,
                 [NoOptions EXCEPT !.code = "validation_error", !.statusCode = 400, !.cause = cause])

AuthenticationError(message, cause) ==
    PaymentError("AuthenticationError", message,
                 [NoOptions EXCEPT !.code = "authentication_error", !.statusCode = 401,
                                   !.cause = cause])

AuthorizationError(message, cause) ==
    PaymentError("AuthorizationError", message,
                 [NoOptions EXCEPT !.code = "authorization_error", !.statusCode = 403,
                                   !.cause = cause])

NotFoundError(message, cause) ==
    PaymentError("NotFoundError", message,
                 [NoOptions EXCEPT !.code = "not_found_error", !.statusCode = 404, !.cause = cause])

\* code: options.code ?? "provider_error", statusCode: options.statusCode ?? 502,
\* retryable: options.retryable ?? true
ProviderError(message, options) ==
    PaymentError("ProviderError", message,
                 [options EXCEPT
                    !.code = IF options.code = "unset" THEN "provider_error" ELSE options.code,
                    !.statusCode = IF options.statusCode = -1 THEN 502 ELSE options.statusCode,
                    !.retryable = IF options.retryable = "unset" THEN "true"
                                  ELSE options.retryable])

\* code: options.code ?? "payment_declined", statusCode 402, retryable false
PaymentDeclinedError(message, options) ==
    PaymentError("PaymentDeclinedError", message,
                 [options EXCEPT
                    !.code = IF options.code = "unset" THEN "payment_declined" ELSE options.code,
                    !.statusCode = 402, !.retryable = "false"])

\* details: retryAfter ? { retryAfter } : undefined
RateLimitError(message, retryAfter, cause) ==
    PaymentError("RateLimitError", message,
                 [NoOptions EXCEPT
                    !.code = "rate_limit_error", !.statusCode = 429, !.retryable = "true",
                    !.details = IF retryAfter \notin {-1, 0}
                                THEN [NoDetails EXCEPT !.present = TRUE, !.retryAfter = retryAfter]
                                ELSE NoDetails,
                    !.cause = cause])

TimeoutError(message, cause) ==
    PaymentError("TimeoutError", message,
                 [NoOptions EXCEPT !.code = "timeout_error", !.statusCode = 504,
                                   !.retryable = "true", !.cause = cause])

DuplicateError(message, cause) ==
    PaymentError("DuplicateError", message,
                 [NoOptions EXCEPT !.code = "duplicate_error", !.statusCode = 409,
                                   !.retryable = "false", !.cause = cause])

\* code: options.code ?? "payment_method_error", statusCode 400, retryable false
PaymentMethodError(message, options) ==
    PaymentError("PaymentMethodError", message,
                 [options EXCEPT
                    !.code = IF options.code = "unset" THEN "payment_method_error"
                             ELSE options.code,
                    !.statusCode = 400, !.retryable = "false"])

FraudError(message, cause) ==
    PaymentError("FraudError", message,
                 [NoOptions EXCEPT !.code = "fraud_error", !.statusCode = 403,
                                   !.retryable = "false", !.cause = cause])

InsufficientFundsError(message, cause) ==
    PaymentError("InsufficientFundsError", message,
                 [NoOptions EXCEPT !.code = "insufficient_funds", !.statusCode = 402,
                                   !.retryable = "false", !.cause = cause])

ConfigurationError(message, cause) ==
    PaymentError("ConfigurationError", message,
                 [NoOptions EXCEPT !.code = "configuration_error", !.statusCode = 500,
                                   !.retryable = "false", !.cause = cause])

\* a value that is not a PaymentError: an Error, a string, an object (which may
\* have a message property), null or undefined
RawValue(kind, message) ==
    [kind |-> kind, name |-> kind, code |-> "", statusCode |-> 0, retryable |-> FALSE,
     message |-> message, details |-> NoDetails, cause |-> "none", ref |-> "raised"]

\* values a collaborator may raise: a typed PaymentError (here a
\* ProviderError with a message) or a plain Error, whose message is empty
ThrownValues == { ProviderError("provider failed", NoOptions), RawValue("Error", "") }

ValidationErrorValue == ValidationError("invalid request", "none")

\* new PaymentError(message): options.code || "payment_error"
PreconditionError == PaymentError("PaymentError", "not initialized", NoOptions)

\* fault variant: every value is wrapped in a new PaymentError
toPaymentErrorWrapping(error) ==
    [PaymentError("PaymentError", IF error.message = "" THEN DefaultMessage ELSE error.message,
                  [NoOptions EXCEPT !.cause = error.ref])
       EXCEPT !.ref = "converted"]

\* a PaymentError is returned as it is; an Error becomes a PaymentError with the
\* default code, error.message || defaultMessage and the Error as cause; a
\* string becomes a PaymentError with that string as its message; anything else
\* a PaymentError with the default message, an object kept in details.originalError
toPaymentError(error) ==
    CASE error.kind = "PaymentError" -> error
      [] error.kind = "Error" ->
           [PaymentError("PaymentError",
                         IF error.message = "" THEN DefaultMessage ELSE error.message,
                         [NoOptions EXCEPT !.cause = error.ref])
              EXCEPT !.ref = "converted"]
      [] error.kind = "string" ->
           [PaymentError("PaymentError", error.message, NoOptions) EXCEPT !.ref = "converted"]
      [] OTHER ->
           [PaymentError("PaymentError", DefaultMessage,
                         [NoOptions EXCEPT
                            !.details = IF error.kind = "object"
                                        THEN [NoDetails EXCEPT !.present = TRUE,
                                                               !.originalError = error.ref]
                                        ELSE NoDetails])
              EXCEPT !.ref = "converted"]

(***************************************************************************)
(* Configuration                                                           *)
(***************************************************************************)
DefaultHighRisk == 8
DefaultMediumRisk == 5

NoThresholds ==
    [present |-> FALSE, highSet |-> FALSE, highRisk |-> 0,
     mediumSet |-> FALSE, mediumRisk |-> 0]

\* thresholds objects a caller may configure (a field may be left out)
ThresholdChoices ==
    { NoThresholds,
      [present |-> TRUE, highSet |-> TRUE, highRisk |-> 6,
       mediumSet |-> TRUE, mediumRisk |-> 4],
      [present |-> TRUE, highSet |-> TRUE, highRisk |-> 0,
       mediumSet |-> FALSE, mediumRisk |-> 0],
      [present |-> TRUE, highSet |-> FALSE, highRisk |-> 0,
       mediumSet |-> TRUE, mediumRisk |-> 4] }

FraudChoices ==
    { [present |-> FALSE, enabled |-> FALSE, thresholds |-> NoThresholds],
      [present |-> TRUE, enabled |-> FALSE, thresholds |-> NoThresholds] }
    \cup { [present |-> TRUE, enabled |-> TRUE, thresholds |-> t] : t \in ThresholdChoices }

NoLogging == [present |-> FALSE, level |-> "none", redactSensitiveData |-> FALSE]

\* the logging section written when the caller gave none
DefaultLogging == [present |-> TRUE, level |-> "info", redactSensitiveData |-> TRUE]

LoggingChoices ==
    { NoLogging, [present |-> TRUE, level |-> "debug", redactSensitiveData |-> FALSE] }

\* the value null or undefined given as the configuration
NoConfig ==
    [present |-> FALSE, environment |-> FALSE, defaultCurrency |-> FALSE, apiKeys |-> FALSE,
     logging |-> NoLogging, stripeKey |-> FALSE, plaidClientId |-> FALSE,
     plaidSecret |-> FALSE,
     fraudDetection |-> [present |-> FALSE, enabled |-> FALSE, thresholds |-> NoThresholds]]

\* what a caller may hand to the constructor: nothing, or a configuration whose
\* environment, defaultCurrency, apiKeys, logging and fraudDetection may each be
\* left out (provider keys need an apiKeys section)
ConfigInputs ==
    { NoConfig }
    \cup { c \in [present : {TRUE}, environment : BOOLEAN, defaultCurrency : BOOLEAN,
                  apiKeys : BOOLEAN, logging : LoggingChoices, stripeKey : BOOLEAN,
                  plaidClientId : BOOLEAN, plaidSecret : BOOLEAN,
                  fraudDetection : FraudChoices] :
             (c.stripeKey \/ c.plaidClientId \/ c.plaidSecret) => c.apiKeys }

\* the configurations the constructor accepts, given with a logging section
RawConfigs ==
    { c \in ConfigInputs :
        c.present /\ c.environment /\ c.defaultCurrency /\ c.apiKeys /\ c.logging.present }

\* fault variant: the default currency is not asked for
ConfigRejectedUnlessCurrency(cfg) ==
    \/ ~cfg.present
    \/ ~cfg.environment
    \/ ~cfg.apiKeys

\* validateConfig throws a ConfigurationError: !config, !config.environment,
\* !config.defaultCurrency, !config.apiKeys
ConfigRejected(cfg) ==
    \/ ~cfg.present
    \/ ~cfg.environment
    \/ ~cfg.defaultCurrency
    \/ ~cfg.apiKeys

\* validateConfig on a configuration it does not reject: the defaults
validateConfig(cfg) ==
    [cfg EXCEPT
       !.logging = IF ~cfg.logging.present THEN DefaultLogging ELSE cfg.logging,
       !.fraudDetection.thresholds =
          IF cfg.fraudDetection.present /\ cfg.fraudDetection.enabled
             /\ ~cfg.fraudDetection.thresholds.present
          THEN [present |-> TRUE, highSet |-> TRUE, highRisk |-> DefaultHighRisk,
                mediumSet |-> TRUE, mediumRisk |-> DefaultMediumRisk]
          ELSE cfg.fraudDetection.thresholds]

\* fault variant: a fraudDetection section counts as enabled whatever its flag says
FraudConfigured(cfg) == cfg.fraudDetection.present

\* config.fraudDetection?.enabled
FraudEnabled(cfg) == cfg.fraudDetection.present /\ cfg.fraudDetection.enabled

\* thresholds?.highRisk ?? 0.8
HighRiskOrDefault(cfg) ==
    IF cfg.fraudDetection.thresholds.present /\ cfg.fraudDetection.thresholds.highSet
    THEN cfg.fraudDetection.thresholds.highRisk
    ELSE DefaultHighRisk

\* thresholds?.mediumRisk ?? 0.5
MediumRiskOrDefault(cfg) ==
    IF cfg.fraudDetection.thresholds.present /\ cfg.fraudDetection.thresholds.mediumSet
    THEN cfg.fraudDetection.thresholds.mediumRisk
    ELSE DefaultMediumRisk

\* truthiness of thresholds?.highRisk in the high-risk block condition
HighRiskThresholdTruthy(cfg) ==
    /\ cfg.fraudDetection.thresholds.present
    /\ cfg.fraudDetection.thresholds.highSet
    /\ cfg.fraudDetection.thresholds.highRisk # 0

(***************************************************************************)
(* Result envelopes and the record of the operation last called            *)
(***************************************************************************)
NoError == RawValue("none", "")

NoEnv ==
    [success |-> FALSE, errorCode |-> "", hasMessage |-> FALSE, tx |-> NoTx, risk |-> NoRisk]

\* a failure envelope built by the orchestrator itself
Failure(code) ==
    [success |-> FALSE, errorCode |-> code, hasMessage |-> TRUE, tx |-> NoTx, risk |-> NoRisk]

\* fault variant: the catch block reads code and message off the raised value itself
CaughtUnconverted(error) == [Failure(error.code) EXCEPT !.hasMessage = (error.message # "")]

\* the envelope of a catch block: errorCode and errorMessage of the converted error
Caught(error) ==
    [Failure(toPaymentError(error).code) EXCEPT !.hasMessage = (toPaymentError(error).message # "")]

\* what a collaborator call came back with: kind is "ok" (success with data),
\* "fail" (failure envelope), "nodata" (success without data), "throw" or "none"
NoCall ==
    [kind |-> "none", score |-> 0, level |-> "none", type |-> "none", error |-> NoError,
     tx |-> NoTx, code |-> ""]

\* what processPayment reads of the assessment it obtained: whether one was made,
\* its success flag, and whether it carries data whose level is "high"
NoAssessment == [made |-> FALSE, success |-> FALSE, high |-> FALSE]

\* the operation last called and how it went: raised is the error a collaborator
\* raised inside it, settled the answer of the provider verb, saveArg the
\* transaction handed to the save or update and persisted what that call came
\* back with, load the answer of transactionManager.getTransaction, key the
\* idempotencyKey of the request ("none" when it has none), repeat whether a
\* request with that key had been dispatched to a provider before, recapture
\* whether the provider had already captured the transaction for one of the
\* concurrent callers before this call
\* the arguments of an error constructor call ("none": no call)
NoConstruction ==
    [name |-> "none", message |-> "", options |-> NoOptions, retryAfter |-> -1, cause |-> "none"]

\* the optional amount argument of capturePayment: not given, or a number
NoAmount == [given |-> FALSE, value |-> 0]

CaptureAmounts == { NoAmount } \cup { [given |-> TRUE, value |-> a] : a \in {1, 2, 3} }

Idle ==
    [op |-> "none", txId |-> "none", passed |-> FALSE, calls |-> <<>>,
     outcome |-> "none", thrown |-> NoError, env |-> NoEnv, before |-> NoTx,
     loaded |-> NoTx, lookup |-> NoCall, authorizeOnly |-> FALSE,
     assessed |-> NoAssessment, prov |-> NoCall, own |-> NoCall, fallback |-> NoCall,
     raised |-> NoError, settled |-> NoCall, saveArg |-> NoTx, persisted |-> "none",
     load |-> NoCall, key |-> "none", repeat |-> FALSE, recapture |-> FALSE,
     made |-> NoConstruction, given |-> NoError, converted |-> NoError, again |-> NoError,
     cfgGiven |-> NoConfig, valid |-> TRUE, amount |-> NoAmount]

Returned(rec, calls, env) ==
    [rec EXCEPT !.passed = TRUE, !.calls = calls, !.outcome = "return", !.env = env]

Threw(rec, passed, error) ==
    [rec EXCEPT !.passed = passed, !.outcome = "throw", !.thrown = error]

\* the record of an operation that ran as r past the barrier
Outcome(rec, r) ==
    [Returned(rec, r.calls, r.env)
       EXCEPT !.raised = r.raised, !.settled = r.settled, !.saveArg = r.saveArg,
              !.persisted = r.persisted, !.lookup = r.lookup, !.assessed = r.assessed,
              !.loaded = r.loaded, !.load = r.load]

(***************************************************************************)
(* Construction and initialization                                         *)
(***************************************************************************)
EmptyRegistry == [t \in PaymentMethodType |-> NoProvider]

\* ProviderRegistry.registerProvider: the last binding of a type wins
registerProvider(reg, type, provider) == [reg EXCEPT ![type] = provider]

\* fault variant: one Plaid credential is enough for the ACH binding
RegisterBlockEitherPlaid(reg, cfg, k) ==
    CASE k = 1 -> registerProvider(reg, "card",
                     IF cfg.stripeKey THEN "StripeCardAdapter" ELSE "GenericCardProvider")
      [] k = 2 -> IF cfg.plaidClientId \/ cfg.plaidSecret
                  THEN registerProvider(reg, "ach", "PlaidBankAdapter") ELSE reg
      [] k = 3 -> IF cfg.stripeKey THEN registerProvider(reg, "sepa", "SEPAProvider") ELSE reg

\* the three registration blocks of registerProviders, in source order
RegisterBlock(reg, cfg, k) ==
    CASE k = 1 -> registerProvider(reg, "card",
                     IF cfg.stripeKey THEN "StripeCardAdapter" ELSE "GenericCardProvider")
      [] k = 2 -> IF cfg.plaidClientId /\ cfg.plaidSecret
                  THEN registerProvider(reg, "ach", "PlaidBankAdapter") ELSE reg
      [] k = 3 -> IF cfg.stripeKey THEN registerProvider(reg, "sepa", "SEPAProvider") ELSE reg

RECURSIVE registerProviders(_, _, _)
\* the registry after the first n blocks have run
registerProviders(reg, cfg, n) ==
    IF n = 0 THEN reg ELSE RegisterBlock(registerProviders(reg, cfg, n - 1), cfg, n)

\* block k awaits a dynamic import, which may fail
BlockImports(cfg, k) ==
    CASE k = 1 -> TRUE
      [] k = 2 -> cfg.plaidClientId /\ cfg.plaidSecret
      [] k = 3 -> cfg.stripeKey

\* provider classes that may implement the optional assessRisk
CardProviders == {"StripeCardAdapter", "GenericCardProvider"}

\* every configuration, with the card adapters implementing assessRisk or no
\* adapter implementing it
AllSetups == { [config |-> c, riskCapable |-> k] : c \in RawConfigs, k \in {{}, CardProviders} }

\* the setups the payment operations are explored under: every fraud-detection
\* setting with no provider credentials (only the generic card provider is
\* bound), and one setup with the Plaid credentials (card and ach bound)
Setups ==
    { s \in AllSetups :
        /\ s.riskCapable = CardProviders
        /\ ~s.config.stripeKey
        /\ s.config.plaidClientId = s.config.plaidSecret
        /\ s.config.plaidClientId => ~s.config.fraudDetection.present }

InitSteps == 1..7

\* the awaited steps of initialize(), in source order
InitStepNames ==
    <<"registerProviders", "transactionManager.initialize", "paymentMethodManager.initialize",
      "recurringBillingManager.initialize", "refundProcessor.initialize",
      "disputeManager.initialize", "fraudDetector.initialize">>

\* the initialize() calls in flight
InitCalls == {"init_1"}

\* the state after construction, for one of the given setups
\* the callers that may have a capture or a cancel in flight at the same time
Callers == {"caller_1", "caller_2"}

NoFlight == [op |-> "none", id |-> "none", loaded |-> NoTx]

\* idempotency keys a caller may put on a request
IdempotencyKeys == {"key_1"}

Constructed(setups) ==
    /\ \E s \in setups : config = validateConfig(s.config) /\ riskCapable = s.riskCapable
    /\ initialized = FALSE
    /\ initPc = [c \in InitCalls |-> 0]
    /\ completed = {}
    /\ registry = EmptyRegistry
    /\ store = [i \in TxIds |-> NoTx]
    /\ last = Idle
    /\ usedKeys = {}
    /\ flight = [c \in Callers |-> NoFlight]
    /\ captured = {}

\* callers that send requests without an idempotencyKey and whose calls on a
\* transaction id are serialized by the deployment
Init == Constructed(Setups) /\ clientKeys = {} /\ serialize = TRUE

InitRisk == Constructed(AllSetups) /\ clientKeys = {} /\ serialize = TRUE

\* fault variant: initialize() starts its steps whatever the initialized flag says
InitializeCallUnguarded(c) ==
    /\ last.op = "none"
    /\ initPc[c] = 0
    /\ initPc' = [initPc EXCEPT ![c] = 1]
    /\ UNCHANGED last
    /\ UNCHANGED <<config, riskCapable, initialized, completed, registry, store>>
    /\ UNCHANGED <<clientKeys, usedKeys, serialize, flight, captured>>

\* initialize(): the synchronous part up to the first await
InitializeCall(c) ==
    /\ last.op = "none"
    /\ initPc[c] = 0
    /\ IF initialized
       THEN /\ last' = [Idle EXCEPT !.op = "initialize", !.passed = TRUE, !.outcome = "return"]
            /\ UNCHANGED initPc
       ELSE /\ initPc' = [initPc EXCEPT ![c] = 1]
            /\ UNCHANGED last
    /\ UNCHANGED <<config, riskCapable, initialized, completed, registry, store>>
    /\ UNCHANGED <<clientKeys, usedKeys, serialize, flight, captured>>

\* fault variant: the initialized flag is raised as soon as the providers are registered
InitializeStepFlagEarly(c) ==
    /\ last.op = "none"
    /\ initPc[c] \in InitSteps
    /\ completed' = completed \cup {initPc[c]}
    /\ registry' = IF initPc[c] = 1 THEN registerProviders(registry, config, 3) ELSE registry
    /\ initialized' = TRUE
    /\ IF initPc[c] = 7
       THEN /\ initPc' = [initPc EXCEPT ![c] = 0]
            /\ last' = [Idle EXCEPT !.op = "initialize", !.passed = TRUE, !.outcome = "return",
                                     !.calls = InitStepNames]
       ELSE /\ initPc' = [initPc EXCEPT ![c] = initPc[c] + 1]
            /\ UNCHANGED last
    /\ UNCHANGED <<config, riskCapable, store>>
    /\ UNCHANGED <<clientKeys, usedKeys, serialize, flight, captured>>

\* one awaited step of initialize() completes: 1 is registerProviders, 2..7 are
\* the transaction, payment-method, recurring-billing, refund, dispute and
\* fraud components
InitializeStep(c) ==
    /\ last.op = "none"
    /\ initPc[c] \in InitSteps
    /\ completed' = completed \cup {initPc[c]}
    /\ registry' = IF initPc[c] = 1 THEN registerProviders(registry, config, 3) ELSE registry
    /\ IF initPc[c] = 7
       THEN /\ initialized' = TRUE
            /\ initPc' = [initPc EXCEPT ![c] = 0]
            /\ last' = [Idle EXCEPT !.op = "initialize", !.passed = TRUE, !.outcome = "return",
                                     !.calls = InitStepNames]
       ELSE /\ initPc' = [initPc EXCEPT ![c] = initPc[c] + 1]
            /\ UNCHANGED <<initialized, last>>
    /\ UNCHANGED <<config, riskCapable, store>>
    /\ UNCHANGED <<clientKeys, usedKeys, serialize, flight, captured>>

\* an awaited step of initialize() raises: the catch block rethrows the
\* converted error and initialized stays as it was
InitializeFail(c) ==
    /\ last.op = "none"
    /\ initPc[c] \in InitSteps
    /\ \E e \in ThrownValues :
         last' = Threw([Idle EXCEPT !.op = "initialize",
                                    !.calls = SubSeq(InitStepNames, 1, initPc[c])],
                       TRUE, toPaymentError(e))
    /\ \/ /\ initPc[c] = 1
          /\ \E k \in 1..3 :
               /\ BlockImports(config, k)
               /\ registry' = registerProviders(registry, config, k - 1)
       \/ /\ initPc[c] # 1
          /\ UNCHANGED registry
    /\ initPc' = [initPc EXCEPT ![c] = 0]
    /\ UNCHANGED <<config, riskCapable, initialized, completed, store>>
    /\ UNCHANGED <<clientKeys, usedKeys, serialize, flight, captured>>

\* the caller takes the result of the last call
Return ==
    /\ last.op # "none"
    /\ last' = Idle
    /\ UNCHANGED <<config, riskCapable, initialized, initPc, completed, registry, store>>
    /\ UNCHANGED <<clientKeys, usedKeys, serialize, flight, captured>>

(***************************************************************************)
(* Collaborator answers                                                    *)
(***************************************************************************)
ThrowOutcomes == { [NoCall EXCEPT !.kind = "throw", !.error = e] : e \in ThrownValues }

FailOutcomes == { [NoCall EXCEPT !.kind = "fail"], [NoCall EXCEPT !.kind = "nodata"] }

\* PaymentMethodManager.getPaymentMethod
PaymentMethodOutcomes ==
    { [NoCall EXCEPT !.kind = "ok", !.type = t] : t \in PaymentMethodType }
    \cup FailOutcomes \cup ThrowOutcomes

\* PaymentProvider.assessRisk (the merge reads only the score of its data)
ProviderRiskOutcomes ==
    { [NoCall EXCEPT !.kind = "ok", !.score = s] : s \in Scores }
    \cup FailOutcomes \cup ThrowOutcomes

\* FraudDetector.assessRisk
FraudDetectorOutcomes ==
    { [NoCall EXCEPT !.kind = "ok", !.score = s, !.level = l] : s \in Scores, l \in RiskLevel }
    \cup FailOutcomes \cup ThrowOutcomes

\* the lists a provider's assessment carries; the answers explored differ in
\* their lists as they differ in their score: empty lists, lists sharing entries
\* with the detector's, and an entry given twice
ProviderFactors(o) ==
    CASE o.score = 0 -> <<>>
      [] o.score = 4 -> <<"velocity">>
      [] o.score = 5 -> <<"geo_mismatch", "velocity">>
      [] o.score = 6 -> <<"velocity", "geo_mismatch">>
      [] OTHER -> <<"velocity", "velocity">>

ProviderRecommendations(o) ==
    IF o.score >= 6 THEN <<"review", "additional_verification">> ELSE <<"review">>

ProviderRules(o) == IF o.score >= 5 THEN <<"provider_rule">> ELSE <<>>

\* the lists the detector's assessment carries
InternalFactors(o) ==
    CASE o.score = 0 -> <<"velocity">>
      [] o.score = 4 -> <<>>
      [] o.score = 5 -> <<"velocity", "amount">>
      [] o.score = 6 -> <<"geo_mismatch">>
      [] OTHER -> <<"amount", "velocity">>

InternalRecommendations(o) ==
    IF o.score >= 5 THEN <<"additional_verification", "review">> ELSE <<>>

InternalRules(o) == IF o.score >= 4 THEN <<"internal_rule", "provider_rule">> ELSE <<>>

\* the envelope a FraudDetector answer stands for
EnvelopeOfDetector(o) ==
    CASE o.kind = "ok" ->
           [NoEnv EXCEPT !.success = TRUE,
                         !.risk = [score |-> o.score, level |-> o.level,
                                   factors |-> InternalFactors(o),
                                   recommendations |-> InternalRecommendations(o),
                                   triggeredRules |-> InternalRules(o)]]
      [] o.kind = "nodata" -> [NoEnv EXCEPT !.success = TRUE]
      [] OTHER -> Failure("fraud_error")

(***************************************************************************)
(* Risk merge (assessRisk)                                                 *)
(***************************************************************************)
\* fault variant: a type nothing is bound to is served by the card provider
getProviderOrCardProvider(reg, type) ==
    IF type \in DOMAIN reg /\ reg[type] # NoProvider THEN reg[type] ELSE reg["card"]

\* the registry answers undefined for a type nothing is bound to
getProviderForPaymentMethod(reg, type) ==
    IF type \in DOMAIN reg THEN reg[type] ELSE NoProvider

\* fault variant: only the success flag of the lookup is read
PaymentMethodSucceeded(pm) == pm.kind \in {"ok", "nodata"}

\* paymentMethod.success && paymentMethod.data
PaymentMethodResolved(pm) == pm.kind = "ok"

\* fault variant: the capability probe is skipped
AssumeAssessRisk(cap, provider) == TRUE

\* "assessRisk" in provider && typeof provider.assessRisk === "function"
HasAssessRisk(cap, provider) == provider \in cap

\* the synthetic assessment returned when fraud detection is not enabled
DisabledAssessment ==
    [NoEnv EXCEPT !.success = TRUE,
                  !.risk = [score |-> 0, level |-> "low", factors |-> <<>>,
                            recommendations |-> <<"allow">>, triggeredRules |-> <<>>]]

\* fault variant: the two scores are averaged
AverageScore(p, i) == (p + i) \div 2

\* Math.max(providerScore, ownScore)
CombinedScore(p, i) == IF p >= i THEN p ELSE i

\* fault variant: the level is read off the default thresholds, whatever is configured
DefaultLevel(score, cfg) ==
    IF score >= DefaultHighRisk THEN "high"
    ELSE IF score >= DefaultMediumRisk THEN "medium"
    ELSE "low"

\* the combined level: high, then medium, then low
CombinedLevel(score, cfg) ==
    IF score >= HighRiskOrDefault(cfg) THEN "high"
    ELSE IF score >= MediumRiskOrDefault(cfg) THEN "medium"
    ELSE "low"

\* fault variant: the detector's lists come first
MergedAssessmentInternalFirst(cfg, prov, own) ==
    [NoEnv EXCEPT !.success = TRUE,
                  !.risk = [score |-> CombinedScore(prov.score, own.score),
                            level |-> CombinedLevel(CombinedScore(prov.score, own.score), cfg),
                            factors |-> InternalFactors(own) \o ProviderFactors(prov),
                            recommendations |->
                                InternalRecommendations(own) \o ProviderRecommendations(prov),
                            triggeredRules |-> InternalRules(own) \o ProviderRules(prov)]]

MergedAssessment(cfg, prov, own) ==
    [NoEnv EXCEPT !.success = TRUE,
                  !.risk = [score |-> CombinedScore(prov.score, own.score),
                            level |-> CombinedLevel(CombinedScore(prov.score, own.score), cfg),
                            factors |-> ProviderFactors(prov) \o InternalFactors(own),
                            recommendations |->
                                ProviderRecommendations(prov) \o InternalRecommendations(own),
                            triggeredRules |-> ProviderRules(prov) \o InternalRules(own)]]

\* a run of assessRisk past the barrier: the collaborator calls made, the envelope
\* returned, and the answers the provider, the detector (for the merge) and the
\* detector (on the fall-back path) gave
RiskRun(calls, env, prov, own, fallback) ==
    [calls |-> calls, env |-> env, lookup |-> NoCall, prov |-> prov, own |-> own,
     fallback |-> fallback, raised |-> NoError]

\* the catch block of assessRisk: the run ends with the converted error
RiskCaught(calls, error, prov, own, fallback) ==
    [RiskRun(calls, Caught(error), prov, own, fallback) EXCEPT !.raised = error]

WithLookup(runs, pm) == { [r EXCEPT !.lookup = pm] : r \in runs }

\* fault variant: the fall-back also has the payment processed and saved
FallBackProcessing(calls, prov, own, o) ==
    RiskRun(calls \o <<"fraudDetector.assessRisk", "provider.processPayment",
                       "transactionManager.saveTransaction">>,
            EnvelopeOfDetector(o), prov, own, o)

\* return await this.fraudDetector.assessRisk(request), inside the try block
FallBack(calls, prov, own, o) ==
    IF o.kind = "throw"
    THEN RiskCaught(Append(calls, "fraudDetector.assessRisk"), o.error, prov, own, o)
    ELSE RiskRun(Append(calls, "fraudDetector.assessRisk"), EnvelopeOfDetector(o),
                 prov, own, o)

\* the provider's assessment succeeded with data: merge with the detector's
MergeRuns(cfg, calls, prov) ==
    UNION { IF own.kind = "throw"
            THEN { RiskCaught(Append(calls, "fraudDetector.assessRisk"),
                              own.error, prov, own, NoCall) }
            ELSE IF own.kind = "ok"
            THEN { RiskRun(Append(calls, "fraudDetector.assessRisk"),
                           MergedAssessment(cfg, prov, own), prov, own, NoCall) }
            ELSE { FallBack(Append(calls, "fraudDetector.assessRisk"), prov, own, o) :
                       o \in FraudDetectorOutcomes }
          : own \in FraudDetectorOutcomes }

\* the provider has a risk-assessment function: call it
ProviderRuns(cfg, calls) ==
    UNION { IF prov.kind = "throw"
            THEN { RiskCaught(Append(calls, "provider.assessRisk"),
                              prov.error, prov, NoCall, NoCall) }
            ELSE IF prov.kind = "ok"
            THEN MergeRuns(cfg, Append(calls, "provider.assessRisk"), prov)
            ELSE { FallBack(Append(calls, "provider.assessRisk"), prov, NoCall, o) :
                       o \in FraudDetectorOutcomes }
          : prov \in ProviderRiskOutcomes }

\* every run of assessRisk(request) on an initialized processor
assessRisk(cfg, reg, cap) ==
    IF ~FraudEnabled(cfg)
    THEN { RiskRun(<<>>, DisabledAssessment, NoCall, NoCall, NoCall) }
    ELSE UNION {
           WithLookup(
             IF pm.kind = "throw"
             THEN { RiskCaught(<<"paymentMethodManager.getPaymentMethod">>,
                               pm.error, NoCall, NoCall, NoCall) }
             ELSE IF /\ PaymentMethodResolved(pm)
                     /\ getProviderForPaymentMethod(reg, pm.type) # NoProvider
                     /\ HasAssessRisk(cap, getProviderForPaymentMethod(reg, pm.type))
             THEN ProviderRuns(cfg, <<"paymentMethodManager.getPaymentMethod">>)
             ELSE { FallBack(<<"paymentMethodManager.getPaymentMethod">>, NoCall, NoCall, o) :
                        o \in FraudDetectorOutcomes },
             pm)
         : pm \in PaymentMethodOutcomes }

\* ensureInitialized() raises before anything else is done
Barrier(op) ==
    /\ ~initialized
    /\ last' = Threw([Idle EXCEPT !.op = op], FALSE, PreconditionError)
    /\ UNCHANGED <<config, riskCapable, initialized, initPc, completed, registry, store>>
    /\ UNCHANGED <<clientKeys, usedKeys, serialize, flight, captured>>

AssessRisk ==
    /\ last.op = "none"
    /\ \/ Barrier("assessRisk")
       \/ /\ initialized
          /\ \E r \in assessRisk(config, registry, riskCapable) :
               last' = [Returned([Idle EXCEPT !.op = "assessRisk"], r.calls, r.env)
                          EXCEPT !.lookup = r.lookup, !.prov = r.prov, !.own = r.own,
                                 !.fallback = r.fallback, !.raised = r.raised]
          /\ UNCHANGED <<config, riskCapable, initialized, initPc, completed, registry, store>>
          /\ UNCHANGED <<clientKeys, usedKeys, serialize, flight, captured>>

(***************************************************************************)
(* Persistence (TransactionManager)                                        *)
(***************************************************************************)
\* what a save or update came back with
PersistenceOutcomes == {"ok", "fail", "throw"}

\* save(transaction) and update(transaction): the record stored under its id
saveTransaction(st, tx) == [st EXCEPT ![tx.id] = tx]

updateTransaction(st, tx) == [st EXCEPT ![tx.id] = tx]

\* get(id): the stored record, a not-found answer, or a raised error
getTransaction(st, id) ==
    (IF st[id] # NoTx THEN { [NoCall EXCEPT !.kind = "ok", !.tx = st[id]] } ELSE {})
    \cup FailOutcomes \cup ThrowOutcomes

(***************************************************************************)
(* Provider settlement verbs                                               *)
(***************************************************************************)
\* a failure envelope of a provider, with or without errorCode and errorMessage
ProviderFailures ==
    { [NoCall EXCEPT !.kind = "fail", !.code = "payment_declined"],
      [NoCall EXCEPT !.kind = "fail", !.code = "rate_limit_error",
                     !.error = RateLimitError("rate limit exceeded", 30, "none")],
      [NoCall EXCEPT !.kind = "fail"],
      [NoCall EXCEPT !.kind = "nodata"] }

\* provider.processPayment / provider.authorizePayment for a method of type t
SettlementOutcomes(t) ==
    { [NoCall EXCEPT !.kind = "ok",
                     !.tx = [id |-> i, status |-> s, paymentMethodType |-> t,
                             timeline |-> <<s>>, amount |-> 2, originalAmount |-> 2]] :
          i \in TxIds, s \in TransactionStatus }
    \cup ProviderFailures \cup ThrowOutcomes

\* provider.capturePayment / provider.cancelPayment on a stored transaction:
\* the provider answers with the record moved to a status, one event appended
TransitionOutcomes(tx) ==
    (IF Len(tx.timeline) < MaxTimeline
     THEN { [NoCall EXCEPT !.kind = "ok",
                           !.tx = [tx EXCEPT !.status = s,
                                             !.timeline = Append(tx.timeline, s)]] :
                s \in TransactionStatus }
     ELSE {})
    \cup ProviderFailures \cup ThrowOutcomes

\* provider.capturePayment(transactionId, amount): a provider that captures
\* reports the amount it was asked for
CaptureOutcomes(tx, amount) ==
    { IF o.kind = "ok" /\ amount.given THEN [o EXCEPT !.tx.amount = amount.value] ELSE o
      : o \in TransitionOutcomes(tx) }

\* the envelope a provider's answer stands for, returned verbatim
EnvelopeOfProvider(o) ==
    CASE o.kind = "ok" -> [NoEnv EXCEPT !.success = TRUE, !.tx = o.tx]
      [] o.kind = "nodata" -> [NoEnv EXCEPT !.success = TRUE]
      [] OTHER -> [NoEnv EXCEPT !.errorCode = o.code, !.hasMessage = (o.code # "")]

(***************************************************************************)
(* processPayment / authorizePayment                                       *)
(***************************************************************************)
\* a run of a payment operation past the barrier: calls made, envelope returned,
\* and the transaction handed to the store (NoTx when nothing was written)
Run(calls, env, write) ==
    [calls |-> calls, env |-> env, write |-> write, raised |-> NoError,
     settled |-> NoCall, saveArg |-> NoTx, persisted |-> "none", lookup |-> NoCall,
     assessed |-> NoAssessment, loaded |-> NoTx, load |-> NoCall]

\* the catch block of an operation: the run ends with the converted error
RunCaught(calls, error) == [Run(calls, Caught(error), NoTx) EXCEPT !.raised = error]

PaymentRun(calls, env, write, lookup, assessed) ==
    [Run(calls, env, write) EXCEPT !.lookup = lookup, !.assessed = assessed]

\* the high-risk block condition of processPayment
BlocksHighRisk(cfg, env) ==
    /\ env.risk.level # "none"
    /\ env.risk.level = "high"
    /\ HighRiskThresholdTruthy(cfg)

HighRiskEnvelope(env) ==
    [NoEnv EXCEPT !.errorCode = "high_risk_payment", !.hasMessage = TRUE, !.risk = env.risk]

\* result.success && result.data: save, then return the provider's envelope
Persist(calls, saveCall, o) ==
    { [ (IF p = "throw"
         THEN RunCaught(Append(calls, saveCall), e)
         ELSE Run(Append(calls, saveCall), EnvelopeOfProvider(o),
                  IF p = "ok" THEN o.tx ELSE NoTx))
        EXCEPT !.settled = o, !.saveArg = o.tx, !.persisted = p ]
      : p \in PersistenceOutcomes, e \in ThrownValues }

\* fault variant: the provider's answer is returned without the save or update
SettleUnsaved(calls, saveCall, o) ==
    IF o.kind = "throw" THEN { [RunCaught(calls, o.error) EXCEPT !.settled = o] }
    ELSE { [Run(calls, EnvelopeOfProvider(o), NoTx) EXCEPT !.settled = o] }

\* fault variant: whatever the provider answered is saved or updated
SettlePersisting(calls, saveCall, o) ==
    IF o.kind = "throw" THEN { [RunCaught(calls, o.error) EXCEPT !.settled = o] }
    ELSE Persist(calls, saveCall, o)

\* the outcome of a provider verb folded into the returned envelope
Settle(calls, saveCall, o) ==
    IF o.kind = "throw" THEN { [RunCaught(calls, o.error) EXCEPT !.settled = o] }
    ELSE IF o.kind = "ok" THEN Persist(calls, saveCall, o)
    ELSE { [Run(calls, EnvelopeOfProvider(o), NoTx) EXCEPT !.settled = o] }

\* the provider's answer carries an error whose retryable flag is set
RetryableAnswer(o) == o.kind \in {"throw", "fail"} /\ o.error.retryable

\* fault variant: a retryable answer is followed by a second call of the verb
DispatchRetrying(reg, calls, type, authorizeOnly) ==
    LET verb == IF authorizeOnly THEN "provider.authorizePayment" ELSE "provider.processPayment"
    IN IF getProviderForPaymentMethod(reg, type) = NoProvider
       THEN { Run(calls, Failure("provider_not_found"), NoTx) }
       ELSE UNION { IF RetryableAnswer(o)
                    THEN UNION { Settle(calls \o <<verb, verb>>,
                                        "transactionManager.saveTransaction", o2)
                                 : o2 \in SettlementOutcomes(type) }
                    ELSE Settle(Append(calls, verb), "transactionManager.saveTransaction", o)
                    : o \in SettlementOutcomes(type) }

Dispatch(reg, calls, type, authorizeOnly) ==
    IF getProviderForPaymentMethod(reg, type) = NoProvider
    THEN { Run(calls, Failure("provider_not_found"), NoTx) }
    ELSE UNION { Settle(Append(calls, IF authorizeOnly THEN "provider.authorizePayment"
                                                        ELSE "provider.processPayment"),
                        "transactionManager.saveTransaction", o)
                 : o \in SettlementOutcomes(type) }

\* the envelopes assessRisk can hand to processPayment
RiskEnvelopes(cfg, reg, cap) ==
    { [env |-> r.env, raised |-> r.raised] : r \in assessRisk(cfg, reg, cap) }

AssessedOf(env) ==
    [made |-> TRUE, success |-> env.success, high |-> env.risk.level = "high"]

WithPayment(runs, pm, assessed) ==
    { [r EXCEPT !.lookup = pm, !.assessed = assessed] : r \in runs }

\* the fraud check of processPayment and what follows it
Screen(cfg, reg, envs, calls, pm, authorizeOnly) ==
    IF FraudEnabled(cfg)
    THEN UNION {
           IF ~a.env.success
           THEN WithPayment({ [Run(Append(calls, "assessRisk"),
                                   Failure("fraud_detection_error"), NoTx)
                                 EXCEPT !.raised = a.raised] },
                            pm, AssessedOf(a.env))
           ELSE IF BlocksHighRisk(cfg, a.env)
           THEN WithPayment({ Run(Append(calls, "assessRisk"), HighRiskEnvelope(a.env), NoTx) },
                            pm, AssessedOf(a.env))
           ELSE WithPayment(Dispatch(reg, Append(calls, "assessRisk"), pm.type, authorizeOnly),
                            pm, AssessedOf(a.env))
         : a \in envs }
    ELSE WithPayment(Dispatch(reg, calls, pm.type, authorizeOnly), pm, NoAssessment)

\* fault variant: the request goes on whatever the validation said
ValidatedAnyway(valid, runs) == runs

\* validatePaymentRequest(request) first in the try block: a rejected request
\* raises a ValidationError, which ends the run in the catch block
Validated(valid, runs) ==
    IF ~valid
    THEN { RunCaught(<<"validatePaymentRequest">>, ValidationErrorValue) }
    ELSE runs

\* every run of processPayment(request) on an initialized processor
processPayment(cfg, reg, cap, valid, authorizeOnly) ==
    Validated(valid,
         LET envs == RiskEnvelopes(cfg, reg, cap) IN
         UNION {
           IF pm.kind = "throw"
           THEN { [RunCaught(<<"validatePaymentRequest",
                               "paymentMethodManager.getPaymentMethod">>, pm.error)
                     EXCEPT !.lookup = pm] }
           ELSE IF ~PaymentMethodResolved(pm)
           THEN { PaymentRun(<<"validatePaymentRequest", "paymentMethodManager.getPaymentMethod">>,
                             Failure("payment_method_error"), NoTx, pm, NoAssessment) }
           ELSE Screen(cfg, reg, envs,
                       <<"validatePaymentRequest", "paymentMethodManager.getPaymentMethod">>,
                       pm, authorizeOnly)
         : pm \in PaymentMethodOutcomes })

\* fault variant: the request is handed on with the flag it came with
authorizePaymentAsRequested(cfg, reg, cap, valid, authorizeOnly) ==
    processPayment(cfg, reg, cap, valid, authorizeOnly)

\* authorizePayment(request) is processPayment({...request, authorizeOnly: true})
authorizePayment(cfg, reg, cap, valid, authorizeOnly) ==
    processPayment(cfg, reg, cap, valid, TRUE)

\* the run reached a provider's processPayment or authorizePayment
Dispatched(r) == r.settled.kind # "none"

Commit(r) ==
    store' = IF r.write # NoTx THEN saveTransaction(store, r.write) ELSE store

ProcessPayment ==
    /\ last.op = "none"
    /\ \/ Barrier("processPayment")
       \/ /\ initialized
          /\ \E valid \in BOOLEAN, authorizeOnly \in BOOLEAN, key \in {"none"} \cup clientKeys :
               \E r \in processPayment(config, registry, riskCapable, valid, authorizeOnly) :
                 /\ last' = [Outcome([Idle EXCEPT !.op = "processPayment"], r)
                               EXCEPT !.authorizeOnly = authorizeOnly, !.key = key,
                                      !.valid = valid,
                                      !.repeat = (key \in usedKeys)]
                 /\ Commit(r)
                 /\ usedKeys' = IF key # "none" /\ Dispatched(r) THEN usedKeys \cup {key}
                                 ELSE usedKeys
          /\ UNCHANGED <<config, riskCapable, initialized, initPc, completed, registry>>
          /\ UNCHANGED <<clientKeys, serialize, flight, captured>>

AuthorizePayment ==
    /\ last.op = "none"
    /\ \/ Barrier("authorizePayment")
       \/ /\ initialized
          /\ \E valid \in BOOLEAN, authorizeOnly \in BOOLEAN, key \in {"none"} \cup clientKeys :
               \E r \in authorizePayment(config, registry, riskCapable, valid, authorizeOnly) :
                 /\ last' = [Outcome([Idle EXCEPT !.op = "authorizePayment"], r)
                               EXCEPT !.authorizeOnly = authorizeOnly, !.key = key,
                                      !.valid = valid,
                                      !.repeat = (key \in usedKeys)]
                 /\ Commit(r)
                 /\ usedKeys' = IF key # "none" /\ Dispatched(r) THEN usedKeys \cup {key}
                                 ELSE usedKeys
          /\ UNCHANGED <<config, riskCapable, initialized, initPc, completed, registry>>
          /\ UNCHANGED <<clientKeys, serialize, flight, captured>>

(***************************************************************************)
(* capturePayment / cancelPayment                                          *)
(***************************************************************************)
\* fault variant: a pending transaction is let through to capture as well
CanCaptureOrPending(status) == status \in {"authorized", "pending"}

\* transaction.status !== "authorized" rejects
CanCapture(status) == status = "authorized"

\* fault variant: a captured transaction is let through to cancel as well
CanCancelOrCaptured(status) == status \in {"initialized", "authorized", "pending", "captured"}

\* a status other than initialized, authorized and pending rejects
CanCancel(status) == status \in {"initialized", "authorized", "pending"}

TransitionRun(calls, env, write, loaded) == [Run(calls, env, write) EXCEPT !.loaded = loaded]

WithLoaded(runs, tx) == { [r EXCEPT !.loaded = tx] : r \in runs }

\* the runs that follow the answer load of transactionManager.getTransaction
AfterLoad(runs, load) == { [r EXCEPT !.load = load] : r \in runs }

\* fault variant: only the success flag of the load is read
TransactionLoadSucceeded(load) == load.kind \in {"ok", "nodata"}

\* transactionResult.success && transactionResult.data
TransactionLoaded(load) == load.kind = "ok"

\* after the legality check: resolve the provider by the stored type, delegate,
\* update the store on success
Delegate(reg, calls, tx, verb, answers) ==
    IF getProviderForPaymentMethod(reg, tx.paymentMethodType) = NoProvider
    THEN { Run(calls, Failure("provider_not_found"), NoTx) }
    ELSE UNION { Settle(Append(calls, verb), "transactionManager.updateTransaction", o)
                 : o \in answers }

\* every run of capturePayment(transactionId, amount) on an initialized processor
capturePayment(st, reg, id, amount) ==
    UNION {
      AfterLoad(
        IF load.kind = "throw"
        THEN { RunCaught(<<"transactionManager.getTransaction">>, load.error) }
        ELSE IF ~TransactionLoaded(load)
        THEN { TransitionRun(<<"transactionManager.getTransaction">>,
                             Failure("transaction_not_found"), NoTx, NoTx) }
        ELSE IF ~CanCapture(load.tx.status)
        THEN { TransitionRun(<<"transactionManager.getTransaction">>,
                             Failure("invalid_transaction_state"), NoTx, load.tx) }
        ELSE WithLoaded(Delegate(reg, <<"transactionManager.getTransaction">>, load.tx,
                                 "provider.capturePayment",
                                 CaptureOutcomes(load.tx, amount)), load.tx),
        load)
    : load \in getTransaction(st, id) }

\* every run of cancelPayment(transactionId) on an initialized processor
cancelPayment(st, reg, id) ==
    UNION {
      AfterLoad(
        IF load.kind = "throw"
        THEN { RunCaught(<<"transactionManager.getTransaction">>, load.error) }
        ELSE IF ~TransactionLoaded(load)
        THEN { TransitionRun(<<"transactionManager.getTransaction">>,
                             Failure("transaction_not_found"), NoTx, NoTx) }
        ELSE IF ~CanCancel(load.tx.status)
        THEN { TransitionRun(<<"transactionManager.getTransaction">>,
                             Failure("invalid_transaction_state"), NoTx, load.tx) }
        ELSE WithLoaded(Delegate(reg, <<"transactionManager.getTransaction">>, load.tx,
                                 "provider.cancelPayment",
                                 TransitionOutcomes(load.tx)), load.tx),
        load)
    : load \in getTransaction(st, id) }

\* the provider's capturePayment answered success with the transaction captured
ProviderCaptured(r) == r.settled.kind = "ok" /\ r.settled.tx.status = "captured"

CommitUpdate(r) ==
    store' = IF r.write # NoTx THEN updateTransaction(store, r.write) ELSE store

CapturePayment ==
    /\ last.op = "none"
    /\ \/ Barrier("capturePayment")
       \/ /\ initialized
          /\ \E id \in TxIds :
               \E r \in capturePayment(store, registry, id, NoAmount) :
                 /\ last' = [Outcome([Idle EXCEPT !.op = "capturePayment"], r)
                               EXCEPT !.txId = id, !.before = store[id]]
                 /\ CommitUpdate(r)
          /\ UNCHANGED <<config, riskCapable, initialized, initPc, completed, registry>>
          /\ UNCHANGED <<clientKeys, usedKeys, serialize, flight, captured>>

\* capturePayment(transactionId, amount) with the amount given
CapturePaymentAmount ==
    /\ last.op = "none"
    /\ initialized
    /\ \E id \in TxIds, amount \in CaptureAmounts \ { NoAmount } :
         \E r \in capturePayment(store, registry, id, amount) :
           /\ last' = [Outcome([Idle EXCEPT !.op = "capturePayment"], r)
                         EXCEPT !.txId = id, !.before = store[id], !.amount = amount]
           /\ CommitUpdate(r)
    /\ UNCHANGED <<config, riskCapable, initialized, initPc, completed, registry>>
    /\ UNCHANGED <<clientKeys, usedKeys, serialize, flight, captured>>

CancelPayment ==
    /\ last.op = "none"
    /\ \/ Barrier("cancelPayment")
       \/ /\ initialized
          /\ \E id \in TxIds :
               \E r \in cancelPayment(store, registry, id) :
                 /\ last' = [Outcome([Idle EXCEPT !.op = "cancelPayment"], r)
                               EXCEPT !.txId = id, !.before = store[id]]
                 /\ CommitUpdate(r)
          /\ UNCHANGED <<config, riskCapable, initialized, initPc, completed, registry>>
          /\ UNCHANGED <<clientKeys, usedKeys, serialize, flight, captured>>

(***************************************************************************)
(* Pass-through operations                                                 *)
(***************************************************************************)
\* the operation and the collaborator method it delegates to
PassThrough ==
    { <<"refundPayment", "refundProcessor.processRefund">>,
      <<"createCustomer", "paymentMethodManager.createCustomer">>,
      <<"updateCustomer", "paymentMethodManager.updateCustomer">>,
      <<"getCustomer", "paymentMethodManager.getCustomer">>,
      <<"searchCustomers", "paymentMethodManager.searchCustomers">>,
      <<"createPaymentMethod", "paymentMethodManager.createPaymentMethod">>,
      <<"getTransaction", "transactionManager.getTransaction">>,
      <<"searchTransactions", "transactionManager.searchTransactions">> }

\* what the collaborator of a pass-through operation came back with
CollaboratorOutcomes ==
    { [NoCall EXCEPT !.kind = "nodata"], [NoCall EXCEPT !.kind = "fail", !.code = "not_found"] }
    \cup ThrowOutcomes

\* try { return await collaborator.method(...) } catch: the converted error
passThrough(method, o) ==
    IF o.kind = "throw"
    THEN RunCaught(<<method>>, o.error)
    ELSE Run(<<method>>, EnvelopeOfProvider(o), NoTx)

PassThroughCall ==
    /\ last.op = "none"
    /\ \E d \in PassThrough :
         \/ Barrier(d[1])
         \/ /\ initialized
            /\ \E o \in CollaboratorOutcomes :
                 last' = Outcome([Idle EXCEPT !.op = d[1]], passThrough(d[2], o))
            /\ UNCHANGED <<config, riskCapable, initialized, initPc, completed, registry, store>>
            /\ UNCHANGED <<clientKeys, usedKeys, serialize, flight, captured>>

Next ==
    \/ \E c \in InitCalls : InitializeCall(c)
    \/ \E c \in InitCalls : InitializeStep(c)
    \/ \E c \in InitCalls : InitializeFail(c)
    \/ AssessRisk
    \/ ProcessPayment
    \/ AuthorizePayment
    \/ CapturePayment
    \/ CancelPayment
    \/ PassThroughCall
    \/ Return

Spec == Init /\ [][Next]_vars

\* the risk merge on its own, over every setup
NextRisk ==
    \/ \E c \in InitCalls : InitializeCall(c)
    \/ \E c \in InitCalls : InitializeStep(c)
    \/ \E c \in InitCalls : InitializeFail(c)
    \/ AssessRisk
    \/ Return

SpecRisk == InitRisk /\ [][NextRisk]_vars

(***************************************************************************)
(* Concurrent capturePayment / cancelPayment calls                         *)
(***************************************************************************)
\* every run of the operation op on the transaction id
TransitionRuns(op, st, reg, id) ==
    IF op = "capturePayment" THEN capturePayment(st, reg, id, NoAmount) ELSE cancelPayment(st, reg, id)

\* the run awaits the provider verb (it passed the load, the legality check and
\* the provider lookup, which follow one another without an await)
AwaitsProvider(r) == r.settled.kind # "none"

\* a caller calls capturePayment or cancelPayment: the call runs up to its await
\* of the provider verb, or returns at once when it is rejected before that.  With
\* serialize set the deployment admits one call per transaction id at a time.
BeginTransition(c, op) ==
    /\ last.op = "none"
    /\ flight[c].op = "none"
    /\ \/ Barrier(op)
       \/ /\ initialized
          /\ \E id \in TxIds :
               /\ serialize => \A d \in Callers : flight[d].id # id
               /\ \E r \in TransitionRuns(op, store, registry, id) :
                    IF AwaitsProvider(r)
                    THEN /\ flight' = [flight EXCEPT ![c] =
                                        [op |-> op, id |-> id, loaded |-> r.loaded]]
                         /\ UNCHANGED last
                    ELSE /\ last' = [Outcome([Idle EXCEPT !.op = op], r)
                                      EXCEPT !.txId = id, !.before = store[id]]
                         /\ UNCHANGED flight
          /\ UNCHANGED <<config, riskCapable, initialized, initPc, completed, registry, store>>
          /\ UNCHANGED <<clientKeys, usedKeys, serialize, captured>>



\* the provider verb of a call in flight answers: the call goes on with the
\* transaction it loaded when it began, updates the store on success and returns
FinishTransition(c) ==
    /\ last.op = "none"
    /\ flight[c].op # "none"
    /\ \E r \in TransitionRuns(flight[c].op, [store EXCEPT ![flight[c].id] = flight[c].loaded],
                               registry, flight[c].id) :
         /\ AwaitsProvider(r)
         /\ r.loaded = flight[c].loaded
         /\ last' = [Outcome([Idle EXCEPT !.op = flight[c].op], r)
                       EXCEPT !.txId = flight[c].id, !.before = store[flight[c].id],
                              !.recapture = (flight[c].id \in captured)]
         /\ CommitUpdate(r)
         /\ captured' = IF flight[c].op = "capturePayment" /\ ProviderCaptured(r)
                         THEN captured \cup {flight[c].id}
                         ELSE captured
    /\ flight' = [flight EXCEPT ![c] = NoFlight]
    /\ UNCHANGED <<config, riskCapable, initialized, initPc, completed, registry>>
    /\ UNCHANGED <<clientKeys, usedKeys, serialize>>

\* a payment whose provider issues the transaction under an id not yet stored
FreshPayment ==
    /\ ProcessPayment
    /\ \A i \in TxIds : store[i] # NoTx => store'[i] = store[i]

\* capture and cancel calls of two callers, serialized per id by the deployment
\* or not, with fraud detection not configured and no provider credentials
InitConcurrent ==
    /\ Constructed({ s \in Setups : ~s.config.fraudDetection.present /\ ~s.config.plaidClientId })
    /\ clientKeys = {}
    /\ serialize \in BOOLEAN

NextConcurrent ==
    \/ \E c \in InitCalls : InitializeCall(c)
    \/ \E c \in InitCalls : InitializeStep(c)
    \/ \E c \in InitCalls : InitializeFail(c)
    \/ FreshPayment
    \/ \E c \in Callers : BeginTransition(c, "capturePayment")
    \/ \E c \in Callers : BeginTransition(c, "cancelPayment")
    \/ \E c \in Callers : FinishTransition(c)
    \/ Return

SpecConcurrent == InitConcurrent /\ [][NextConcurrent]_vars

\* payments by callers that put an idempotencyKey on their requests, with fraud
\* detection not configured
InitKeys ==
    /\ Constructed({ s \in Setups : ~s.config.fraudDetection.present })
    /\ clientKeys = IdempotencyKeys
    /\ serialize = TRUE

NextKeys ==
    \/ \E c \in InitCalls : InitializeCall(c)
    \/ \E c \in InitCalls : InitializeStep(c)
    \/ \E c \in InitCalls : InitializeFail(c)
    \/ ProcessPayment
    \/ AuthorizePayment
    \/ Return

SpecKeys == InitKeys /\ [][NextKeys]_vars

(***************************************************************************)
(* Error construction and conversion                                       *)
(***************************************************************************)
ErrorMessages == {"", "card declined"}

\* options a caller may pass to a constructor that takes an options object
OptionChoices ==
    { [NoOptions EXCEPT !.code = c, !.statusCode = n, !.retryable = r]
      : c \in {"unset", "", "gateway_down"}, n \in {-1, 0, 503}, r \in {"unset", "true", "false"} }

\* retryAfter arguments: left out, zero seconds, thirty seconds
RetryAfters == {-1, 0, 30}

ErrorNames ==
    {"PaymentError", "ValidationError", "AuthenticationError", "AuthorizationError",
     "NotFoundError", "ProviderError", "PaymentDeclinedError", "RateLimitError", "TimeoutError",
     "DuplicateError", "PaymentMethodError", "FraudError", "InsufficientFundsError",
     "ConfigurationError"}

TakesOptions == {"PaymentError", "ProviderError", "PaymentDeclinedError", "PaymentMethodError"}

\* the constructor calls explored: options only where the constructor takes
\* them, retryAfter only for RateLimitError
Constructions ==
    { c \in [name : ErrorNames, message : ErrorMessages, options : OptionChoices,
             retryAfter : RetryAfters, cause : {"none", "raised"}] :
        /\ c.name \notin TakesOptions => c.options = NoOptions
        /\ c.name \in TakesOptions => c.cause = "none"
        /\ c.name # "RateLimitError" => c.retryAfter = -1 }

\* new <name>(...)
New(c) ==
    CASE c.name = "PaymentError" -> PaymentError("PaymentError", c.message, c.options)
      [] c.name = "ValidationError" -> ValidationError(c.message, c.cause)
      [] c.name = "AuthenticationError" -> AuthenticationError(c.message, c.cause)
      [] c.name = "AuthorizationError" -> AuthorizationError(c.message, c.cause)
      [] c.name = "NotFoundError" -> NotFoundError(c.message, c.cause)
      [] c.name = "ProviderError" -> ProviderError(c.message, c.options)
      [] c.name = "PaymentDeclinedError" -> PaymentDeclinedError(c.message, c.options)
      [] c.name = "RateLimitError" -> RateLimitError(c.message, c.retryAfter, c.cause)
      [] c.name = "TimeoutError" -> TimeoutError(c.message, c.cause)
      [] c.name = "DuplicateError" -> DuplicateError(c.message, c.cause)
      [] c.name = "PaymentMethodError" -> PaymentMethodError(c.message, c.options)
      [] c.name = "FraudError" -> FraudError(c.message, c.cause)
      [] c.name = "InsufficientFundsError" -> InsufficientFundsError(c.message, c.cause)
      [] OTHER -> ConfigurationError(c.message, c.cause)

\* values that are not a PaymentError: Error, string, object, null, undefined
RawValues ==
    { RawValue(k, m) : k \in {"Error", "string", "object"}, m \in ErrorMessages }
    \cup { RawValue("null", ""), RawValue("undefined", "") }

\* an error is constructed
ConstructError ==
    /\ last.op = "none"
    /\ \E c \in Constructions :
         last' = [Idle EXCEPT !.op = "new", !.made = c, !.converted = New(c)]
    /\ UNCHANGED <<config, riskCapable, initialized, initPc, completed, registry, store>>
    /\ UNCHANGED <<clientKeys, usedKeys, serialize, flight, captured>>

\* toPaymentError(e) on a constructed error or on a value of another kind
Convert ==
    /\ last.op = "none"
    /\ \E e \in { New(c) : c \in Constructions } \cup RawValues :
         last' = [Idle EXCEPT !.op = "toPaymentError", !.given = e,
                              !.converted = toPaymentError(e)]
    /\ UNCHANGED <<config, riskCapable, initialized, initPc, completed, registry, store>>
    /\ UNCHANGED <<clientKeys, usedKeys, serialize, flight, captured>>

\* toPaymentError applied to what toPaymentError returned
ConvertAgain ==
    /\ last.op = "toPaymentError"
    /\ last.again = NoError
    /\ last' = [last EXCEPT !.again = toPaymentError(last.converted)]
    /\ UNCHANGED <<config, riskCapable, initialized, initPc, completed, registry, store>>
    /\ UNCHANGED <<clientKeys, usedKeys, serialize, flight, captured>>

InitErrors ==
    /\ Constructed({ s \in Setups : ~s.config.fraudDetection.present /\ ~s.config.plaidClientId })
    /\ clientKeys = {}
    /\ serialize = TRUE

NextErrors ==
    \/ ConstructError
    \/ Convert
    \/ ConvertAgain
    \/ Return

SpecErrors == InitErrors /\ [][NextErrors]_vars

(***************************************************************************)
(* Construction                                                            *)
(***************************************************************************)
\* the collaborators the constructor builds, in order, after validateConfig
ConstructorCalls ==
    <<"new Logger", "new ProviderRegistry", "new TransactionManager",
      "new PaymentMethodManager", "new RecurringBillingManager", "new RefundProcessor",
      "new DisputeManager", "new FraudDetector">>

\* new PaymentProcessor(config): validateConfig first, then the collaborators
Construct ==
    /\ last.op = "none"
    /\ config = NoConfig
    /\ \E raw \in ConfigInputs :
         IF ConfigRejected(raw)
         THEN /\ last' = [Threw([Idle EXCEPT !.op = "constructor"], FALSE,
                                ConfigurationError("configuration is invalid", "none"))
                            EXCEPT !.cfgGiven = raw]
              /\ UNCHANGED config
         ELSE /\ last' = [Returned([Idle EXCEPT !.op = "constructor"], ConstructorCalls, NoEnv)
                            EXCEPT !.cfgGiven = raw]
              /\ config' = validateConfig(raw)
    /\ UNCHANGED <<riskCapable, initialized, initPc, completed, registry, store>>
    /\ UNCHANGED <<clientKeys, usedKeys, serialize, flight, captured>>

\* no processor has been constructed yet
InitConstruct ==
    /\ config = NoConfig
    /\ riskCapable = CardProviders
    /\ initialized = FALSE
    /\ initPc = [c \in InitCalls |-> 0]
    /\ completed = {}
    /\ registry = EmptyRegistry
    /\ store = [i \in TxIds |-> NoTx]
    /\ last = Idle
    /\ usedKeys = {}
    /\ flight = [c \in Callers |-> NoFlight]
    /\ captured = {}
    /\ clientKeys = {}
    /\ serialize = TRUE

NextConstruct ==
    \/ Construct
    \/ Return

SpecConstruct == InitConstruct /\ [][NextConstruct]_vars

(***************************************************************************)
(* A store that outlives the processor                                     *)
(***************************************************************************)
\* transactions found in the store at construction, saved by an earlier
\* processor whose configuration may have bound other providers
StoredTransactions ==
    { [id |-> i, status |-> st, paymentMethodType |-> t, timeline |-> <<st>>,
       amount |-> 2, originalAmount |-> 2]
      : i \in TxIds, st \in {"initialized", "authorized", "captured"},
        t \in {"card", "ach", "crypto"} }

InitStored ==
    /\ \E s \in { u \in Setups : ~u.config.fraudDetection.present } :
         config = validateConfig(s.config) /\ riskCapable = s.riskCapable
    /\ initialized = FALSE
    /\ initPc = [c \in InitCalls |-> 0]
    /\ completed = {}
    /\ registry = EmptyRegistry
    /\ \E tx \in StoredTransactions : store = [i \in TxIds |-> IF i = tx.id THEN tx ELSE NoTx]
    /\ last = Idle
    /\ usedKeys = {}
    /\ flight = [c \in Callers |-> NoFlight]
    /\ captured = {}
    /\ clientKeys = {}
    /\ serialize = TRUE

NextStored ==
    \/ \E c \in InitCalls : InitializeCall(c)
    \/ \E c \in InitCalls : InitializeStep(c)
    \/ \E c \in InitCalls : InitializeFail(c)
    \/ CapturePayment
    \/ CancelPayment
    \/ Return

SpecStored == InitStored /\ [][NextStored]_vars

(***************************************************************************)
(* Overlapping initialize() calls                                          *)
(***************************************************************************)
\* two initialize() calls that may be in flight at the same time
OverlappingInitCalls == {"init_1", "init_2"}

InitOverlap ==
    /\ \E s \in { u \in Setups : ~u.config.fraudDetection.present } :
         config = validateConfig(s.config) /\ riskCapable = s.riskCapable
    /\ initialized = FALSE
    /\ initPc = [c \in OverlappingInitCalls |-> 0]
    /\ completed = {}
    /\ registry = EmptyRegistry
    /\ store = [i \in TxIds |-> NoTx]
    /\ last = Idle
    /\ usedKeys = {}
    /\ flight = [c \in Callers |-> NoFlight]
    /\ captured = {}
    /\ clientKeys = {}
    /\ serialize = TRUE

\* both calls with every step succeeding
NextOverlap ==
    \/ \E c \in OverlappingInitCalls : InitializeCall(c)
    \/ \E c \in OverlappingInitCalls : InitializeStep(c)
    \/ Return

SpecOverlap == InitOverlap /\ [][NextOverlap]_vars

(***************************************************************************)
(* Provider bindings under every combination of credentials                *)
(***************************************************************************)
\* every combination of stripeKey, plaidClientId and plaidSecret, without fraud
\* detection
InitBindings ==
    Constructed({ s \in AllSetups :
                    s.riskCapable = CardProviders /\ ~s.config.fraudDetection.present })
    /\ clientKeys = {} /\ serialize = TRUE

NextBindings ==
    \/ \E c \in InitCalls : InitializeCall(c)
    \/ \E c \in InitCalls : InitializeStep(c)
    \/ \E c \in InitCalls : InitializeFail(c)
    \/ ProcessPayment
    \/ Return

SpecBindings == InitBindings /\ [][NextBindings]_vars

(***************************************************************************)
(* Captures of a given amount                                              *)
(***************************************************************************)
NextAmounts ==
    \/ \E c \in InitCalls : InitializeCall(c)
    \/ \E c \in InitCalls : InitializeStep(c)
    \/ \E c \in InitCalls : InitializeFail(c)
    \/ CapturePaymentAmount
    \/ Return

\* captures with an amount, of the transactions found in the store
SpecAmounts == InitStored /\ [][NextAmounts]_vars

(***************************************************************************)
(* Properties                                                              *)
(***************************************************************************)
PaymentOps == {"processPayment", "authorizePayment"}

ProviderVerbs ==
    {"provider.processPayment", "provider.authorizePayment", "provider.capturePayment",
     "provider.cancelPayment", "provider.refundPayment"}

PersistenceWrites == {"transactionManager.saveTransaction", "transactionManager.updateTransaction"}

Called(names) == \E k \in 1..Len(last.calls) : last.calls[k] \in names

\* the call got past ensureInitialized and came back with an envelope
Answered(ops) == last.op \in ops /\ last.passed /\ last.outcome = "return"

Rejected(code) == ~last.env.success /\ last.env.errorCode = code /\ last.env.hasMessage

\* C1: capturePayment on a loaded transaction whose status is not authorized
\* answers invalid_transaction_state, calls no provider verb and no save/update,
\* and leaves the stored transaction (status and timeline) as it was
C1_CaptureRejectsNonAuthorized ==
    (/\ last.op = "capturePayment" /\ last.passed
     /\ last.loaded # NoTx
     /\ last.loaded.status # "authorized")
    => /\ last.outcome = "return"
       /\ Rejected("invalid_transaction_state")
       /\ ~Called(ProviderVerbs \cup PersistenceWrites)
       /\ store[last.txId] = last.before
       /\ last.before = last.loaded

C1_Witness ==
    /\ Answered({"capturePayment"})
    /\ last.loaded.status = "captured"
    /\ Rejected("invalid_transaction_state")
    /\ store[last.txId].status = "captured"

\* C2: cancelPayment reaches the provider's cancelPayment only from initialized,
\* authorized or pending; from any other status it answers
\* invalid_transaction_state, calls no provider verb and no update, and the stored
\* transaction is unchanged
C2_CancelLegality ==
    (last.op = "cancelPayment" /\ last.passed)
    => /\ Called({"provider.cancelPayment"})
          => last.loaded.status \in {"initialized", "authorized", "pending"}
       /\ (/\ last.loaded # NoTx
           /\ last.loaded.status \notin {"initialized", "authorized", "pending"})
          => /\ last.outcome = "return"
             /\ Rejected("invalid_transaction_state")
             /\ ~Called(ProviderVerbs \cup PersistenceWrites)
             /\ store[last.txId] = last.before
             /\ last.before = last.loaded

C2_Witness ==
    /\ Answered({"cancelPayment"})
    /\ last.loaded.status = "captured"
    /\ Rejected("invalid_transaction_state")
    /\ store[last.txId].status = "captured"

\* C3: with fraud detection enabled and a highRisk threshold configured (0
\* included), a payment whose assessment has level high is answered
\* high_risk_payment with that assessment, is never dispatched to the provider and
\* nothing is persisted
C3_HighRiskBlocked ==
    (/\ Answered(PaymentOps)
     /\ config.fraudDetection.present /\ config.fraudDetection.enabled
     /\ config.fraudDetection.thresholds.highSet
     /\ last.assessed.made /\ last.assessed.success /\ last.assessed.high)
    => /\ Rejected("high_risk_payment")
       /\ last.env.risk.level = "high"
       /\ ~Called(ProviderVerbs \cup PersistenceWrites)

\* C4 as stated: a payment method that resolves to a type with no bound provider
\* is answered provider_not_found, whatever the fraud configuration and risk outcome
C4_UnboundAlwaysProviderNotFound ==
    (/\ Answered(PaymentOps)
     /\ last.lookup.kind = "ok"
     /\ registry[last.lookup.type] = NoProvider)
    => Rejected("provider_not_found")

\* C4 as amended: such a payment is always answered with a failure and never
\* dispatched or persisted; the code is provider_not_found unless the fraud check
\* rejected first (fraud_detection_error when the assessment failed,
\* high_risk_payment when it was high)
C4_UnboundRejected ==
    (/\ Answered(PaymentOps)
     /\ last.lookup.kind = "ok"
     /\ registry[last.lookup.type] = NoProvider)
    => /\ ~last.env.success /\ last.env.hasMessage
       /\ last.env.errorCode \in
            {"provider_not_found", "fraud_detection_error", "high_risk_payment"}
       /\ ~Called(ProviderVerbs \cup PersistenceWrites)
       /\ last.env.errorCode = "fraud_detection_error"
            <=> (last.assessed.made /\ ~last.assessed.success)
       /\ last.env.errorCode = "high_risk_payment"
            => (last.assessed.made /\ last.assessed.success /\ last.assessed.high)
       /\ (~last.assessed.made \/ (last.assessed.success /\ ~last.assessed.high))
            => last.env.errorCode = "provider_not_found"

C4_Witness ==
    /\ Answered(PaymentOps)
    /\ last.lookup.kind = "ok"
    /\ last.lookup.type = "crypto"
    /\ registry["crypto"] = NoProvider
    /\ last.assessed.made /\ last.assessed.success
    /\ Rejected("provider_not_found")

\* C5: when the payment-method lookup of a valid request answers a failure or no
\* data, processPayment answers payment_method_error and makes no risk
\* assessment, no provider call and no persistence write
C5_UnresolvedPaymentMethod ==
    (/\ last.op \in PaymentOps /\ last.passed
     /\ last.lookup.kind \in {"fail", "nodata"})
    => /\ last.outcome = "return"
       /\ Rejected("payment_method_error")
       /\ last.calls = <<"validatePaymentRequest", "paymentMethodManager.getPaymentMethod">>
       /\ ~last.assessed.made
       /\ last.env.tx = NoTx

C5_Witness ==
    /\ Answered({"processPayment"})
    /\ last.lookup.kind = "nodata"
    /\ Rejected("payment_method_error")
    /\ config.fraudDetection.present /\ config.fraudDetection.enabled

\* C6: with fraud detection disabled or not configured, assessRisk always answers
\* the same envelope (success, score 0, level low, no factors, no triggered rules,
\* the single recommendation allow) and calls no collaborator
C6_DisabledAssessment ==
    (/\ last.op = "assessRisk" /\ last.passed
     /\ ~(config.fraudDetection.present /\ config.fraudDetection.enabled))
    => /\ last.outcome = "return"
       /\ last.env.success
       /\ last.env.errorCode = ""
       /\ last.env.risk = [score |-> 0, level |-> "low", factors |-> <<>>,
                           recommendations |-> <<"allow">>, triggeredRules |-> <<>>]
       /\ last.calls = <<>>

C6_Witness ==
    /\ Answered({"assessRisk"})
    /\ config.fraudDetection.present /\ ~config.fraudDetection.enabled
    /\ last.env.success /\ last.env.risk.level = "low"

\* C7: when the provider's assessment and the detector's assessment for the merge
\* both succeed, the returned score is the larger of the two scores
C7_MergedScoreIsMax ==
    (/\ last.op = "assessRisk" /\ last.passed
     /\ last.prov.kind = "ok" /\ last.own.kind = "ok")
    => /\ last.outcome = "return" /\ last.env.success
       /\ last.env.risk.score >= last.prov.score
       /\ last.env.risk.score >= last.own.score
       /\ last.env.risk.score \in {last.prov.score, last.own.score}

C7_Witness ==
    /\ Answered({"assessRisk"})
    /\ last.prov.kind = "ok" /\ last.own.kind = "ok"
    /\ last.prov.score = 4 /\ last.own.score = 8
    /\ last.env.risk.score = 8

\* the level the configured thresholds (0.8 and 0.5 when unset) give a score
ThresholdLevel(score) ==
    IF score >= HighRiskOrDefault(config) THEN "high"
    ELSE IF score >= MediumRiskOrDefault(config) /\ score < HighRiskOrDefault(config)
    THEN "medium"
    ELSE "low"

BoundWithoutRiskCapability ==
    /\ last.lookup.kind = "ok"
    /\ registry[last.lookup.type] # NoProvider
    /\ registry[last.lookup.type] \notin riskCapable

\* C9 as stated: if the bound provider has no risk capability, or its assessRisk
\* answers a failure or raises, assessRisk returns the detector's result
C9_FallBackAlsoWhenProviderRaises ==
    (/\ last.op = "assessRisk" /\ last.passed
     /\ config.fraudDetection.present /\ config.fraudDetection.enabled
     /\ \/ BoundWithoutRiskCapability
        \/ last.prov.kind \in {"fail", "throw"})
    => /\ last.fallback.kind # "none"
       /\ last.fallback.kind # "throw" => last.env = EnvelopeOfDetector(last.fallback)

\* C9 as amended: if the bound provider has no risk capability, or its assessRisk
\* answers a failure envelope, assessRisk returns the detector's result (a raise
\* of the detector converted to a failure envelope); if the provider's assessRisk
\* raises, assessRisk answers the converted error and the detector is not asked
C9_FallBackOnFailureEnvelope ==
    (/\ last.op = "assessRisk" /\ last.passed
     /\ config.fraudDetection.present /\ config.fraudDetection.enabled)
    => /\ (BoundWithoutRiskCapability \/ last.prov.kind = "fail")
          => /\ last.outcome = "return"
             /\ last.fallback.kind # "none"
             /\ BoundWithoutRiskCapability => ~Called({"provider.assessRisk"})
             /\ last.env = IF last.fallback.kind = "throw"
                           THEN Caught(last.fallback.error)
                           ELSE EnvelopeOfDetector(last.fallback)
       /\ last.prov.kind = "throw"
          => /\ last.outcome = "return"
             /\ last.env = Caught(last.prov.error)
             /\ ~Called({"fraudDetector.assessRisk"})

C9_Witness ==
    /\ Answered({"assessRisk"})
    /\ last.prov.kind = "fail"
    /\ last.fallback.kind = "ok"
    /\ last.env.success
    /\ last.env.risk.score = last.fallback.score

PublicOps ==
    PaymentOps \cup {"capturePayment", "cancelPayment", "assessRisk"}
    \cup { d[1] : d \in PassThrough }

AssessmentFailed == last.op \in PaymentOps /\ last.assessed.made /\ ~last.assessed.success

\* C11 as stated: on an initialized processor every operation returns an envelope,
\* and whatever a collaborator raised, the envelope is a failure whose errorCode
\* and errorMessage are those of the converted PaymentError
C11_RaisedAlwaysConverted ==
    (last.op \in PublicOps /\ last.passed)
    => /\ last.outcome = "return"
       /\ last.raised # NoError
          => /\ ~last.env.success
             /\ last.env.errorCode = toPaymentError(last.raised).code
             /\ last.env.hasMessage = (toPaymentError(last.raised).message # "")

\* C11 as amended: on an initialized processor every operation returns an envelope
\* and never raises; whatever a collaborator raised, the envelope is a failure
\* with the errorCode and errorMessage of the converted PaymentError, except
\* that a raise inside the risk assessment of processPayment is answered with
\* errorCode fraud_detection_error and a non-empty message
C11_RaisedConvertedOrFraudError ==
    (last.op \in PublicOps /\ last.passed)
    => /\ last.outcome = "return"
       /\ last.thrown = NoError
       /\ last.raised # NoError
          => /\ ~last.env.success
             /\ last.env.tx = NoTx
             /\ IF AssessmentFailed
                THEN last.env.errorCode = "fraud_detection_error" /\ last.env.hasMessage
                ELSE /\ last.env.errorCode = toPaymentError(last.raised).code
                     /\ last.env.hasMessage = (toPaymentError(last.raised).message # "")

C11_Witness ==
    /\ Answered({"processPayment"})
    /\ last.raised.kind = "Error"
    /\ last.settled.kind = "throw"
    /\ Called({"provider.processPayment"})
    /\ Rejected("payment_error")

\* C12: every envelope with success=false that an operation returns carries a
\* non-empty errorCode and a non-empty errorMessage, failure envelopes handed
\* through from a provider included
C12_FailureCarriesCodeAndMessage ==
    (Answered(PublicOps) /\ ~last.env.success)
    => /\ last.env.errorCode # ""
       /\ last.env.hasMessage

SettlementOps == PaymentOps \cup {"capturePayment", "cancelPayment"}

\* the provider verb an operation dispatches to, and the write that follows it
VerbOf(op, authorizeOnly) ==
    CASE op = "capturePayment" -> "provider.capturePayment"
      [] op = "cancelPayment" -> "provider.cancelPayment"
      [] op = "authorizePayment" -> "provider.authorizePayment"
      [] OTHER -> IF authorizeOnly THEN "provider.authorizePayment"
                  ELSE "provider.processPayment"

WriteOf(op) ==
    IF op \in PaymentOps THEN "transactionManager.saveTransaction"
    ELSE "transactionManager.updateTransaction"

\* the provider verb answered success with a transaction
ProviderSucceeded == last.op \in SettlementOps /\ last.passed /\ last.settled.kind = "ok"

\* the save (update) was called exactly once, with the provider's transaction,
\* right after the provider verb and as the last call before returning
PersistedOnceAfterProvider ==
    /\ Cardinality({ k \in 1..Len(last.calls) : last.calls[k] \in PersistenceWrites }) = 1
    /\ Cardinality({ k \in 1..Len(last.calls) : last.calls[k] \in ProviderVerbs }) = 1
    /\ Len(last.calls) >= 2
    /\ last.calls[Len(last.calls)] = WriteOf(last.op)
    /\ last.calls[Len(last.calls) - 1] = VerbOf(last.op, last.authorizeOnly)
    /\ last.saveArg = last.settled.tx
    /\ last.persisted # "none"

\* C13 as stated: when the provider answers success with a transaction, the
\* operation calls the save (update for capture and cancel) exactly once with
\* that transaction, after the provider call and before returning, and returns
\* the provider's envelope unchanged
C13_PersistOnceReturnVerbatim ==
    ProviderSucceeded
    => /\ PersistedOnceAfterProvider
       /\ last.outcome = "return"
       /\ last.env = [NoEnv EXCEPT !.success = TRUE, !.tx = last.settled.tx]

\* C13 as amended: the same, except that when the save (update) itself raises,
\* the operation returns the failure envelope of the converted error instead of
\* the provider's envelope
C13_PersistOnceReturnVerbatimUnlessSaveRaises ==
    ProviderSucceeded
    => /\ PersistedOnceAfterProvider
       /\ last.outcome = "return"
       /\ last.persisted # "throw"
          => last.env = [NoEnv EXCEPT !.success = TRUE, !.tx = last.settled.tx]
       /\ last.persisted = "throw"
          => /\ last.raised # NoError
             /\ ~last.env.success
             /\ last.env.errorCode = toPaymentError(last.raised).code
             /\ last.env.tx = NoTx

C13_Witness ==
    /\ Answered({"capturePayment"})
    /\ last.settled.kind = "ok"
    /\ last.settled.tx.status = "captured"
    /\ last.persisted = "ok"
    /\ last.env.success
    /\ last.calls = <<"transactionManager.getTransaction", "provider.capturePayment",
                      "transactionManager.updateTransaction">>
    /\ store[last.txId] = last.env.tx

\* C14: whenever processPayment, capturePayment or cancelPayment returns
\* success=true with a transaction, that transaction is the one in the
\* persistence store, and a save or update that reported a failure is reflected
\* in the returned envelope
C14_SuccessMeansPersisted ==
    (Answered(SettlementOps) /\ last.env.success /\ last.env.tx # NoTx)
    => /\ store[last.env.tx.id] = last.env.tx
       /\ last.persisted = "ok"

\* C15: a processPayment whose idempotencyKey was already used by an earlier
\* dispatched request does not reach the provider again and saves no second
\* transaction, so a key maps to at most one dispatch and one transaction
C15_KeyDispatchedAtMostOnce ==
    (Answered(PaymentOps) /\ last.key # "none" /\ last.repeat)
    => /\ ~Called(ProviderVerbs)
       /\ ~Called(PersistenceWrites)

\* C16: authorizePayment dispatches only to the provider's authorizePayment,
\* never to its processPayment, whatever authorizeOnly the request carries, and
\* otherwise runs as processPayment does; processPayment dispatches to the
\* provider's authorizePayment iff authorizeOnly is set, else to its processPayment
C16_AuthorizeOnlyForced ==
    /\ (last.op = "authorizePayment" /\ last.passed)
       => /\ ~Called({"provider.processPayment"})
          /\ Called(ProviderVerbs) <=> Called({"provider.authorizePayment"})
          /\ Called(ProviderVerbs) <=> last.settled.kind # "none"
    /\ (last.op = "processPayment" /\ last.passed)
       => /\ Called({"provider.authorizePayment"})
             <=> (last.authorizeOnly /\ last.settled.kind # "none")
          /\ Called({"provider.processPayment"})
             <=> (~last.authorizeOnly /\ last.settled.kind # "none")

C16_Witness ==
    /\ Answered({"authorizePayment"})
    /\ ~last.authorizeOnly
    /\ Called({"provider.authorizePayment"})
    /\ last.env.success
    /\ last.env.tx.status = "authorized"
    /\ store[last.env.tx.id] = last.env.tx

\* C17: capturePayment and cancelPayment on a transaction id whose load answers
\* a failure or no data return transaction_not_found, call no provider verb and
\* write nothing to the store
C17_NotFound ==
    (/\ last.op \in {"capturePayment", "cancelPayment"} /\ last.passed
     /\ last.load.kind \in {"fail", "nodata"})
    => /\ last.outcome = "return"
       /\ Rejected("transaction_not_found")
       /\ last.calls = <<"transactionManager.getTransaction">>
       /\ last.saveArg = NoTx
       /\ store[last.txId] = last.before

C17_Witness ==
    /\ Answered({"cancelPayment"})
    /\ last.load.kind = "nodata"
    /\ Rejected("transaction_not_found")
    /\ store[last.txId] # NoTx

\* C18: the persisted timeline is append-only: a successful capture or cancel
\* leaves the persisted timeline as it was plus exactly one entry, a successful
\* payment leaves a persisted timeline of exactly one entry, and the last entry
\* is the persisted transaction's current status
C18_TimelineAppendOnly ==
    /\ (Answered({"capturePayment", "cancelPayment"}) /\ last.env.success
        /\ last.env.tx # NoTx)
       => /\ store[last.txId].timeline = Append(last.before.timeline, store[last.txId].status)
          /\ store[last.txId].status = last.env.tx.status
    /\ (Answered(PaymentOps) /\ last.env.success /\ last.env.tx # NoTx)
       => store[last.env.tx.id].timeline = <<last.env.tx.status>>

TerminalStatus == {"failed", "declined", "canceled", "expired"}

\* a capturePayment or cancelPayment call returns in this step
TransitionReturns == last.op = "none" /\ last'.op \in {"capturePayment", "cancelPayment"}

\* a terminal persisted status stays, and captured does not become canceled
TerminalKept ==
    \A id \in TxIds :
      /\ store[id].status \in TerminalStatus => store'[id].status = store[id].status
      /\ store[id].status = "captured" => store'[id].status # "canceled"

\* C19 as stated: over any sequence and any interleaving of operations, no
\* capturePayment or cancelPayment changes a persisted status that is failed,
\* declined, canceled or expired, nor changes captured to canceled
C19_TerminalKeptUnderAnyInterleaving == [][TransitionReturns => TerminalKept]_vars

\* C19 as amended: the same, over any sequence of operations in which the calls
\* on one transaction id are serialized
C19_TerminalKeptWhenSerialized == [][(serialize /\ TransitionReturns) => TerminalKept]_vars

C19_Witness ==
    /\ serialize
    /\ Answered({"cancelPayment"})
    /\ last.before.status = "captured"
    /\ Len(last.before.timeline) = 2
    /\ Rejected("invalid_transaction_state")
    /\ store[last.txId] = last.before

\* C20: with the calls on one transaction id serialized, the provider's
\* capturePayment is not invoked again for a transaction it has already captured
\* (without serialization two calls can both load it as authorized and both
\* invoke the provider)
C20_SerializedCapturesOnce ==
    (serialize /\ last.op = "capturePayment" /\ last.passed)
    => ~(Called({"provider.capturePayment"}) /\ last.recapture)

\* the number of provider settlement verbs the call invoked
VerbCalls == Cardinality({ k \in 1..Len(last.calls) : last.calls[k] \in ProviderVerbs })

\* C21: a call of processPayment, authorizePayment, capturePayment or
\* cancelPayment invokes at most one provider settlement verb, whatever the
\* provider answers, a retryable failure returned or raised included
C21_NeverRetries ==
    (last.op \in SettlementOps /\ last.passed) => VerbCalls <= 1

C21_Witness ==
    /\ Answered({"processPayment"})
    /\ RetryableAnswer(last.settled)
    /\ last.settled.kind = "fail"
    /\ last.env.errorCode = "rate_limit_error"
    /\ VerbCalls = 1

\* C22: toPaymentError applied to what toPaymentError returned gives that same
\* error back (same object, code, statusCode and retryable), and a PaymentError
\* of any class is returned unchanged
C22_ConversionIdempotent ==
    /\ (last.op = "toPaymentError" /\ last.again # NoError)
       => /\ last.again = last.converted
          /\ last.again.ref = last.converted.ref
          /\ last.again.code = last.converted.code
          /\ last.again.statusCode = last.converted.statusCode
          /\ last.again.retryable = last.converted.retryable
    /\ (last.op = "toPaymentError" /\ last.given.kind = "PaymentError")
       => last.converted = last.given

C22_Witness ==
    /\ last.op = "toPaymentError"
    /\ last.given.kind = "Error"
    /\ last.converted.ref = "converted"
    /\ last.converted.cause = "raised"
    /\ last.again = last.converted

\* the conversion of a value that is not a PaymentError is a PaymentError of
\* the generic kind
GenericKind(e) ==
    /\ e.kind = "PaymentError"
    /\ e.name = "PaymentError"
    /\ e.code = "payment_error"
    /\ e.statusCode = 500
    /\ ~e.retryable

\* C23 as stated: every input yields a PaymentError, and an input that is not a
\* PaymentError yields the generic kind with the input's message and with the
\* input as cause
C23_GenericKeepsMessageAndCause ==
    last.op = "toPaymentError"
    => /\ last.converted.kind = "PaymentError"
       /\ last.given.kind # "PaymentError"
          => /\ GenericKind(last.converted)
             /\ last.converted.message = last.given.message
             /\ last.converted.cause = last.given.ref

\* C23 as amended: every input yields a PaymentError, and an input that is not a
\* PaymentError yields the generic kind; an Error is kept as cause and its
\* message is kept unless empty (then the default message); a string becomes the
\* message, with no cause; an object is kept in details.originalError, with the
\* default message and no cause; null and undefined give the default message only
C23_GenericKeepsWhatItCan ==
    last.op = "toPaymentError"
    => /\ last.converted.kind = "PaymentError"
       /\ last.given.kind # "PaymentError"
          => /\ GenericKind(last.converted)
             /\ last.given.kind = "Error"
                => /\ last.converted.cause = last.given.ref
                   /\ last.converted.message
                        = (IF last.given.message = "" THEN DefaultMessage
                           ELSE last.given.message)
                   /\ last.converted.details = NoDetails
             /\ last.given.kind = "string"
                => /\ last.converted.cause = "none"
                   /\ last.converted.message = last.given.message
                   /\ last.converted.details = NoDetails
             /\ last.given.kind = "object"
                => /\ last.converted.cause = "none"
                   /\ last.converted.message = DefaultMessage
                   /\ last.converted.details.originalError = last.given.ref
             /\ last.given.kind \in {"null", "undefined"}
                => /\ last.converted.cause = "none"
                   /\ last.converted.message = DefaultMessage
                   /\ last.converted.details = NoDetails

C23_Witness ==
    /\ last.op = "toPaymentError"
    /\ last.given.kind = "object"
    /\ last.given.message = "card declined"
    /\ GenericKind(last.converted)
    /\ last.converted.message = DefaultMessage
    /\ last.converted.details.originalError = "raised"

\* the code and retryable flag the taxonomy gives each kind
Taxonomy ==
    [ValidationError |-> [code |-> "validation_error", retryable |-> FALSE],
     AuthenticationError |-> [code |-> "authentication_error", retryable |-> FALSE],
     AuthorizationError |-> [code |-> "authorization_error", retryable |-> FALSE],
     NotFoundError |-> [code |-> "not_found_error", retryable |-> FALSE],
     ProviderError |-> [code |-> "provider_error", retryable |-> TRUE],
     PaymentDeclinedError |-> [code |-> "payment_declined", retryable |-> FALSE],
     RateLimitError |-> [code |-> "rate_limit_error", retryable |-> TRUE],
     TimeoutError |-> [code |-> "timeout_error", retryable |-> TRUE],
     DuplicateError |-> [code |-> "duplicate_error", retryable |-> FALSE],
     PaymentMethodError |-> [code |-> "payment_method_error", retryable |-> FALSE],
     FraudError |-> [code |-> "fraud_error", retryable |-> FALSE],
     InsufficientFundsError |-> [code |-> "insufficient_funds", retryable |-> FALSE],
     ConfigurationError |-> [code |-> "configuration_error", retryable |-> FALSE]]

\* C26: an error of a kind of the taxonomy, built without a code or retryable
\* option, has the kind's code and retryable flag; a ProviderError built with
\* retryable false is not retryable; the kinds other than Provider, RateLimit
\* and Timeout are never retryable whatever options they are built with; and a
\* RateLimitError built with a retryAfter value has that value in its details
C26_TaxonomyAndRetryAfter ==
    (last.op = "new" /\ last.made.name \in DOMAIN Taxonomy)
    => /\ (last.made.options.code = "unset" /\ last.made.options.retryable = "unset")
          => /\ last.converted.code = Taxonomy[last.made.name].code
             /\ last.converted.retryable = Taxonomy[last.made.name].retryable
       /\ (last.made.name = "ProviderError" /\ last.made.options.retryable = "false")
          => ~last.converted.retryable
       /\ last.made.name \notin {"ProviderError", "RateLimitError", "TimeoutError"}
          => ~last.converted.retryable
       /\ (last.made.name = "RateLimitError" /\ last.made.retryAfter # -1)
          => /\ last.converted.details.present
             /\ last.converted.details.retryAfter = last.made.retryAfter

\* C24: the constructor throws a ConfigurationError, with no collaborator
\* constructed, when the configuration, its environment, its default currency or
\* its API keys are missing; otherwise the processor's configuration is the one
\* given, with the default logging section when none was given and the default
\* thresholds when fraud detection is enabled without thresholds
C24_ConstructorValidates ==
    last.op = "constructor"
    => IF \/ ~last.cfgGiven.present
          \/ ~last.cfgGiven.environment
          \/ ~last.cfgGiven.defaultCurrency
          \/ ~last.cfgGiven.apiKeys
       THEN /\ last.outcome = "throw"
            /\ last.thrown.name = "ConfigurationError"
            /\ last.thrown.code = "configuration_error"
            /\ last.calls = <<>>
            /\ config = NoConfig
       ELSE /\ last.outcome = "return"
            /\ last.calls = ConstructorCalls
            /\ config.logging
                 = (IF last.cfgGiven.logging.present THEN last.cfgGiven.logging
                    ELSE [present |-> TRUE, level |-> "info", redactSensitiveData |-> TRUE])
            /\ config.fraudDetection.thresholds
                 = (IF /\ last.cfgGiven.fraudDetection.present
                       /\ last.cfgGiven.fraudDetection.enabled
                       /\ ~last.cfgGiven.fraudDetection.thresholds.present
                    THEN [present |-> TRUE, highSet |-> TRUE, highRisk |-> DefaultHighRisk,
                          mediumSet |-> TRUE, mediumRisk |-> DefaultMediumRisk]
                    ELSE last.cfgGiven.fraudDetection.thresholds)
            /\ config = [last.cfgGiven EXCEPT !.logging = config.logging,
                                              !.fraudDetection.thresholds =
                                                  config.fraudDetection.thresholds]

C24_Witness ==
    /\ last.op = "constructor"
    /\ last.outcome = "return"
    /\ ~last.cfgGiven.logging.present
    /\ last.cfgGiven.fraudDetection.enabled
    /\ ~last.cfgGiven.fraudDetection.thresholds.present
    /\ config.logging.level = "info"
    /\ config.fraudDetection.thresholds.highRisk = DefaultHighRisk

\* the list is the first list followed by the second: every entry of both, in
\* their order, none dropped
Concatenated(list, first, second) ==
    /\ Len(list) = Len(first) + Len(second)
    /\ \A k \in 1..Len(first) : list[k] = first[k]
    /\ \A k \in 1..Len(second) : list[Len(first) + k] = second[k]

\* assessRisk returned the merge of a provider's and the detector's assessment
MergedPath ==
    /\ Answered({"assessRisk"})
    /\ last.prov.kind = "ok"
    /\ last.own.kind = "ok"

\* C25: on the merged path the returned factors, recommendations and
\* triggeredRules are each the provider's list followed by the detector's list
C25_ListsConcatenated ==
    MergedPath
    => /\ last.env.success
       /\ Concatenated(last.env.risk.factors,
                       ProviderFactors(last.prov), InternalFactors(last.own))
       /\ Concatenated(last.env.risk.recommendations,
                       ProviderRecommendations(last.prov), InternalRecommendations(last.own))
       /\ Concatenated(last.env.risk.triggeredRules,
                       ProviderRules(last.prov), InternalRules(last.own))

C25_Witness ==
    /\ MergedPath
    /\ last.env.risk.factors = <<"geo_mismatch", "velocity", "velocity", "amount">>
    /\ last.env.risk.recommendations = <<"review", "additional_verification", "review">>
    /\ last.env.risk.triggeredRules = <<"provider_rule", "internal_rule", "provider_rule">>

\* C27: the transaction capturePayment hands to the persistence update has
\* status captured and was loaded as authorized; the one cancelPayment hands to
\* it has status canceled and was loaded as initialized, authorized or pending
C27_PersistsLegalSuccessorOnly ==
    /\ (last.op = "capturePayment" /\ last.passed /\ last.saveArg # NoTx)
       => /\ last.loaded.status = "authorized"
          /\ last.saveArg.status = "captured"
    /\ (last.op = "cancelPayment" /\ last.passed /\ last.saveArg # NoTx)
       => /\ last.loaded.status \in {"initialized", "authorized", "pending"}
          /\ last.saveArg.status = "canceled"

\* C28: with fraud detection enabled, when the provider's assessment succeeded
\* with score p and assessRisk returns success, the returned score is at least p
C28_ProviderScoreNeverMasked ==
    (/\ Answered({"assessRisk"})
     /\ config.fraudDetection.present /\ config.fraudDetection.enabled
     /\ last.prov.kind = "ok"
     /\ last.env.success)
    => last.env.risk.score >= last.prov.score

\* C29: with calls made one after the other, a capturePayment on a transaction
\* that an earlier capturePayment has had the provider capture does not reach
\* the provider, also when the earlier call's update failed or raised
C29_SequentialCaptureIdempotent ==
    (/\ serialize
     /\ last.op = "capturePayment" /\ last.passed
     /\ last.txId \in captured /\ last.recapture)
    => /\ last.settled.kind = "none"
       /\ ~Called({"provider.capturePayment"})
       /\ last.loaded.status # "authorized"

\* C30: capturePayment and cancelPayment make no payment-method lookup; when the
\* loaded transaction passes the legality check and no provider is bound to its
\* stored paymentMethodType, they answer provider_not_found, call no provider
\* and leave the stored transaction as it was
C30_StoredTypeUnbound ==
    (last.op \in {"capturePayment", "cancelPayment"} /\ last.passed)
    => /\ ~Called({"paymentMethodManager.getPaymentMethod"})
       /\ (/\ last.load.kind = "ok"
           /\ last.op = "capturePayment" => last.loaded.status = "authorized"
           /\ last.op = "cancelPayment"
                => last.loaded.status \in {"initialized", "authorized", "pending"}
           /\ registry[last.loaded.paymentMethodType] = NoProvider)
          => /\ last.outcome = "return"
             /\ Rejected("provider_not_found")
             /\ last.calls = <<"transactionManager.getTransaction">>
             /\ last.saveArg = NoTx
             /\ store[last.txId] = last.before

C30_Witness ==
    /\ Answered({"capturePayment"})
    /\ last.loaded.status = "authorized"
    /\ last.loaded.paymentMethodType = "crypto"
    /\ registry["crypto"] = NoProvider
    /\ registry["card"] # NoProvider
    /\ Rejected("provider_not_found")
    /\ store[last.txId] = last.loaded

\* C31: initialize() runs its steps in source order; when a step raises, no
\* later step has run in that call, a PaymentError is raised to the caller and
\* the processor is not initialized, so every operation is still rejected; the
\* call that returns after running its steps has run all seven, in order
C31_InitializeInSequenceOrFail ==
    /\ (last.op = "initialize" /\ last.outcome = "throw")
       => /\ last.thrown.kind = "PaymentError"
          /\ \E k \in InitSteps : last.calls = SubSeq(InitStepNames, 1, k)
          /\ ~initialized
          /\ \A c \in InitCalls : initPc[c] = 0
    /\ (last.op = "initialize" /\ last.outcome = "return" /\ last.calls # <<>>)
       => /\ last.calls = InitStepNames
          /\ initialized
    /\ \A c \in InitCalls :
         initPc[c] \in InitSteps => \A k \in 1..(initPc[c] - 1) : k \in completed
    /\ (~initialized /\ last.op \in PublicOps)
       => /\ last.outcome = "throw"
          /\ ~last.passed

C31_Witness ==
    /\ last.op = "initialize"
    /\ last.outcome = "throw"
    /\ last.calls = SubSeq(InitStepNames, 1, 4)
    /\ last.thrown.code = "payment_error"
    /\ completed = {1, 2, 3}
    /\ ~initialized
    /\ registry["card"] # NoProvider

\* C32: once initialize() has succeeded, a call of initialize() returns at
\* once: no call runs a step, and the registry, the components initialized and
\* the initialized flag stay as they are
C32_InitializeIdempotent ==
    [][initialized
       => /\ initialized'
          /\ registry' = registry
          /\ completed' = completed
          /\ \A c \in InitCalls : initPc'[c] = 0
          /\ last'.op = "initialize"
             => (last'.outcome = "return" /\ last'.calls = <<>>)]_vars

C32_Witness ==
    /\ initialized
    /\ last.op = "initialize"
    /\ last.outcome = "return"
    /\ last.calls = <<>>
    /\ completed = InitSteps
    /\ store["tx_1"] # NoTx

\* C33: with two initialize() calls overlapping, a step (provider registration
\* or a component's initialize) that has completed is not run again
C33_StepsRunOnce ==
    [][\A c \in OverlappingInitCalls :
         (initPc[c] \in InitSteps /\ initPc'[c] # initPc[c]) => initPc[c] \notin completed]_vars

\* C34: a request rejected by validation is answered success=false with
\* errorCode validation_error, and processPayment then makes no payment-method
\* lookup, no risk assessment, no provider call and no persistence write
C34_RejectedByValidation ==
    [][(last'.op \in PaymentOps /\ last'.passed /\ ~last'.valid)
       => /\ last'.outcome = "return"
          /\ ~last'.env.success
          /\ last'.env.errorCode = "validation_error"
          /\ last'.calls = <<"validatePaymentRequest">>
          /\ last'.lookup = NoCall
          /\ last'.assessed = NoAssessment
          /\ last'.settled = NoCall
          /\ last'.persisted = "none"
          /\ store' = store
          /\ usedKeys' = usedKeys]_vars

C34_Witness ==
    /\ last.op = "processPayment" /\ last.passed /\ ~last.valid
    /\ last.env.errorCode = "validation_error"
    /\ FraudEnabled(config)
    /\ registry["card"] # NoProvider
    /\ store["tx_1"] # NoTx

\* C35: assessRisk has no money-moving or persistent effect: on every path it
\* calls no provider settlement verb and no persistence save/update, and the
\* stored transactions are what they were before the call
C35_AssessRiskMovesNothing ==
    [][last'.op = "assessRisk"
       => /\ store' = store
          /\ \A k \in 1..Len(last'.calls) :
               last'.calls[k] \notin ProviderVerbs \cup PersistenceWrites]_vars

C35_Witness ==
    /\ last.op = "assessRisk" /\ last.passed /\ last.outcome = "return"
    /\ last.env.success
    /\ last.prov.kind = "ok" /\ last.own.kind = "ok"
    /\ store["tx_1"] # NoTx

\* C36: when the provider's settlement verb answers success=false, or success
\* without a transaction, processPayment, capturePayment and cancelPayment make
\* no persistence save/update, return the provider's envelope unchanged, and
\* leave the stored transactions exactly as they were
C36_UnsuccessfulAnswerNotPersisted ==
    [][(last'.op \in SettlementOps /\ last'.settled.kind \in {"fail", "nodata"})
       => /\ \A k \in 1..Len(last'.calls) : last'.calls[k] \notin PersistenceWrites
          /\ last'.persisted = "none"
          /\ last'.outcome = "return"
          /\ last'.env.success = (last'.settled.kind = "nodata")
          /\ last'.env.errorCode = last'.settled.code
          /\ last'.env.tx = NoTx
          /\ store' = store]_vars

C36_Witness ==
    /\ last.op = "capturePayment" /\ last.settled.kind = "fail"
    /\ last.loaded.status = "authorized"
    /\ ~last.env.success /\ last.env.errorCode = last.settled.code
    /\ store[last.txId].status = "authorized"

\* C37: with fraud detection enabled, a failed risk assessment is answered
\* fraud_detection_error with no provider call and no persistence write, and a
\* payment reaches the provider only after an assessment that succeeded with a
\* level other than the blocking one (high)
C37_DispatchOnlyAfterClearAssessment ==
    (Answered(PaymentOps) /\ FraudEnabled(config))
    => /\ AssessmentFailed
          => /\ Rejected("fraud_detection_error")
             /\ ~Called(ProviderVerbs \cup PersistenceWrites)
       /\ Called(ProviderVerbs)
          => /\ last.assessed.made /\ last.assessed.success
             /\ ~last.assessed.high

\* the binding each payment-method type has under the credentials of cfg
BoundBy(cfg) ==
    [t \in PaymentMethodType |->
       CASE t = "card" -> IF cfg.stripeKey THEN "StripeCardAdapter" ELSE "GenericCardProvider"
         [] t = "ach" -> IF cfg.plaidClientId /\ cfg.plaidSecret THEN "PlaidBankAdapter"
                         ELSE NoProvider
         [] t = "sepa" -> IF cfg.stripeKey THEN "SEPAProvider" ELSE NoProvider
         [] OTHER -> NoProvider]

\* C39: after a successful initialize() the bindings are a function of the
\* credentials only: card is always bound (Stripe adapter iff stripeKey, generic
\* card provider otherwise), ach iff both plaidClientId and plaidSecret, sepa iff
\* stripeKey; bank_account, digital_wallet and crypto are never bound, so
\* processPayment for those types never reaches a provider
C39_BindingsFollowCredentials ==
    initialized
    => /\ registry = BoundBy(config)
       /\ (/\ Answered({"processPayment"})
           /\ last.lookup.kind = "ok"
           /\ last.lookup.type \in {"bank_account", "digital_wallet", "crypto"})
          => /\ Rejected("provider_not_found")
             /\ ~Called(ProviderVerbs \cup PersistenceWrites)

C39_Witness ==
    /\ initialized
    /\ config.plaidClientId /\ ~config.plaidSecret /\ config.stripeKey
    /\ registry["ach"] = NoProvider /\ registry["sepa"] = "SEPAProvider"
    /\ Answered({"processPayment"})
    /\ last.lookup.kind = "ok" /\ last.lookup.type = "crypto"
    /\ Rejected("provider_not_found")

\* C38: after any sequence of capturePayment(id, amount) calls every persisted
\* transaction has amount <= originalAmount: an amount above the authorized
\* amount is not passed to the provider and no record with amount >
\* originalAmount is persisted
C38_CaptureWithinAuthorizedAmount ==
    /\ \A i \in TxIds : store[i] # NoTx => store[i].amount <= store[i].originalAmount
    /\ (last.op = "capturePayment" /\ last.amount.given /\ Called({"provider.capturePayment"}))
       => last.amount.value <= last.loaded.originalAmount

====
